---- MODULE Spec2Model ----
(***************************************************************************)
(* GitHub issue -> Jira ticket synchronisation: the field classifier       *)
(* (map-issue-type.js) and the ADF document builder (adf-utils.js).        *)
(*                                                                         *)
(* Texts (titles, bodies, ADF text) are sequences of one-character strings *)
(* so that toLowerCase, includes, split, trim and the component regular    *)
(* expression are computed character by character.  Names (labels, issue   *)
(* types, priorities) are opaque strings.  A JavaScript value of the name  *)
(* domain is a record [t, v]: t its type, v its string payload.  A         *)
(* JavaScript value of the text domain is a record [t, s]: s its           *)
(* characters.                                                             *)
(***************************************************************************)
EXTENDS Integers, Sequences, FiniteSets, TLC

VARIABLES
    op,            \* which exported function this run calls
    configStore,   \* the label-mapping.json file: missing, unparsable or parsed
    githubLabels,  \* argument of mapGitHubLabelsToJiraIssueType
    githubIssue,   \* argument of mapPriority / mapGitHubIssueToJiraFields
    text,          \* argument of textToADF
    args,          \* arguments of the other exported functions
    proc,          \* the process: pending promise, requests sent, console, exit code
    twin,          \* a second invocation: the same run under other credentials,
                   \* or the other of two invocations in flight at once
    results        \* what each call so far returned (or threw), in call order

vars == <<op, configStore, githubLabels, githubIssue, text, args, proc, twin, results>>

----------------------------------------------------------------------------
(* Bounds of the model. *)

MaxLabels == 2
MaxLines == 2
MaxCalls == 2

----------------------------------------------------------------------------
(* JavaScript values of the name domain. *)

Str(s) == [t |-> "string", v |-> s]
Undefined == [t |-> "undefined", v |-> ""]
Null == [t |-> "null", v |-> ""]
Fn(name) == [t |-> "function", v |-> name]
\* a label object of the GitHub API: { name: <name> }
LabelObj(name) == [t |-> "object", v |-> name]

\* ToBoolean: the falsy values are undefined, null and the empty string.
Truthy(val) ==
    CASE val.t = "undefined" -> FALSE
      [] val.t = "null" -> FALSE
      [] val.t = "string" -> val.v # ""
      [] OTHER -> TRUE

\* ToPropertyKey of a name value used in mappings[label].
PropKey(val) ==
    CASE val.t = "string" -> val.v
      [] val.t = "undefined" -> "undefined"
      [] val.t = "null" -> "null"
      [] OTHER -> "[object Object]"

\* Members every object parsed by JSON.parse inherits from Object.prototype.
ObjectProtoKeys ==
    {"constructor", "toString", "valueOf", "hasOwnProperty", "__proto__"}

\* obj[key] on an object with own properties props: own first, then the
\* prototype chain, else undefined.
GetProp(props, key) ==
    IF key \in DOMAIN props THEN props[key]
    ELSE IF key \in ObjectProtoKeys THEN Fn(key)
    ELSE Undefined

NoProps == [k \in {} |-> Undefined]

----------------------------------------------------------------------------
(* The configuration store (label-mapping.json). *)

\* the outcome of a call: a returned value or a thrown error, the branch that
\* produced it and the lines it logged
Return(val, path, log) == [kind |-> "return", val |-> val, path |-> path, log |-> log]
Throw(path) == [kind |-> "throw", val |-> Undefined, path |-> path, log |-> << >>]

\* a parsed JSON object: hasMappings says whether the key "mappings" is there
ConfigObject(hasMappings, mappings, defaultIssueType) ==
    [json |-> "object", hasMappings |-> hasMappings, mappings |-> mappings,
     defaultIssueType |-> defaultIssueType]

Loaded(parsed) == [state |-> "ok", parsed |-> parsed]
\* the file holds {} : neither key is there
EmptyConfig == ConfigObject(FALSE, NoProps, Undefined)
\* the file holds the JSON text null
JsonNull == [EmptyConfig EXCEPT !.json = "null"]
MissingFile == [state |-> "missing", parsed |-> EmptyConfig]
UnparsableFile == [state |-> "unparsable", parsed |-> EmptyConfig]

----------------------------------------------------------------------------
(* map-issue-type.js: mapGitHubLabelsToJiraIssueType *)

\* an array argument, and a null passed where the array is expected
Array(items) == [t |-> "array", items |-> items]
NullLabels == [t |-> "null", items |-> << >>]

\* the for..of loop over githubLabels: the first label whose
\* mappings[label] is truthy returns that value; none: the default.
RECURSIVE LabelLoop(_, _, _)
LabelLoop(config, items, i) ==
    IF i > Len(items)
    THEN Return(config.defaultIssueType, "default", <<config.defaultIssueType>>)
    ELSE IF ~config.hasMappings
    THEN Throw("mappings")
    ELSE IF Truthy(GetProp(config.mappings, PropKey(items[i])))
    THEN Return(GetProp(config.mappings, PropKey(items[i])), "match", << >>)
    ELSE LabelLoop(config, items, i + 1)

\* the body of the try block: readFileSync, JSON.parse, the destructuring
\* and the loop; each can throw.
TryMapLabels(labels, store) ==
    IF store.state # "ok"
    THEN Throw("load")
    ELSE IF store.parsed.json = "null"
    THEN Throw("destructure")
    ELSE IF labels.t # "array"
    THEN Throw("iterate")
    ELSE LabelLoop(store.parsed, labels.items, 1)

FallbackIssueType == Str("Task")

FallbackLog ==
    <<Str("Error reading mapping configuration"),
      Str("Falling back to default issue type: Task")>>

\* variant: a catch block that lets the error through
CatchMapLabels_Rethrow(attempt) == attempt

\* the catch block
CatchMapLabels(attempt) ==
    IF attempt.kind = "throw"
    THEN Return(FallbackIssueType, "fallback", FallbackLog)
    ELSE attempt

mapGitHubLabelsToJiraIssueType(labels, store) ==
    CatchMapLabels(TryMapLabels(labels, store))

----------------------------------------------------------------------------
(* Characters and the String methods the code calls. *)

UpperLetters ==
    <<"A", "B", "C", "D", "E", "F", "G", "H", "I", "J", "K", "L", "M",
      "N", "O", "P", "Q", "R", "S", "T", "U", "V", "W", "X", "Y", "Z">>

LowerLetters ==
    <<"a", "b", "c", "d", "e", "f", "g", "h", "i", "j", "k", "l", "m",
      "n", "o", "p", "q", "r", "s", "t", "u", "v", "w", "x", "y", "z">>

LowerOf ==
    [c \in {UpperLetters[i] : i \in 1..Len(UpperLetters)} |->
        LowerLetters[CHOOSE i \in 1..Len(UpperLetters) : UpperLetters[i] = c]]

UpperOf ==
    [c \in {LowerLetters[i] : i \in 1..Len(LowerLetters)} |->
        UpperLetters[CHOOSE i \in 1..Len(LowerLetters) : LowerLetters[i] = c]]

LowerChar(c) == IF c \in DOMAIN LowerOf THEN LowerOf[c] ELSE c
UpperChar(c) == IF c \in DOMAIN UpperOf THEN UpperOf[c] ELSE c

\* what \s matches and what trim() strips
WhiteSpace == {" ", "\t", "\n", "\r"}
\* where ^ and $ match under the m flag
LineTerminators == {"\n", "\r"}

toLowerCase(s) == [i \in 1..Len(s) |-> LowerChar(s[i])]

includes(s, p) ==
    \E i \in 0..(Len(s) - Len(p)) : \A j \in 1..Len(p) : s[i + j] = p[j]

trim(s) ==
    LET keep == {i \in 1..Len(s) : s[i] \notin WhiteSpace}
    IN IF keep = {} THEN << >>
       ELSE SubSeq(s, CHOOSE i \in keep : \A j \in keep : i <= j,
                      CHOOSE i \in keep : \A j \in keep : i >= j)

RECURSIVE split(_, _)
split(s, sep) ==
    IF \A i \in 1..Len(s) : s[i] # sep
    THEN <<s>>
    ELSE LET k == CHOOSE i \in 1..Len(s) :
                      s[i] = sep /\ \A j \in 1..(i - 1) : s[j] # sep
         IN <<SubSeq(s, 1, k - 1)>> \o split(SubSeq(s, k + 1, Len(s)), sep)

\* JavaScript values of the text domain
Txt(s) == [t |-> "string", s |-> s]
AbsentTxt == [t |-> "undefined", s |-> << >>]
NullTxt == [t |-> "null", s |-> << >>]
NumberTxt(digits) == [t |-> "number", s |-> digits]
ObjectTxt == [t |-> "object", s |-> << >>]

TruthyTxt(val) ==
    CASE val.t = "undefined" -> FALSE
      [] val.t = "null" -> FALSE
      [] val.t = "string" -> val.s # << >>
      [] val.t = "number" -> val.s # <<"0">>
      [] OTHER -> TRUE

\* x || ""
OrEmpty(val) == IF TruthyTxt(val) THEN val ELSE Txt(<< >>)

----------------------------------------------------------------------------
(* map-issue-type.js: mapPriority *)

kwHighProductionSystem ==
    <<"h", "i", "g", "h", " ", "-", " ", "p", "r", "o", "d", "u", "c", "t", "i", "o", "n", " ", "s", "y", "s", "t", "e", "m">>
kwProductionDown ==
    <<"p", "r", "o", "d", "u", "c", "t", "i", "o", "n", " ", "d", "o", "w", "n">>
kwMediumNonCritical ==
    <<"m", "e", "d", "i", "u", "m", " ", "-", " ", "a", " ", "n", "o", "n", "-", "c", "r", "i", "t", "i", "c", "a", "l", " ", "f", "e", "a", "t", "u", "r", "e">>
kwLowMinorIssue ==
    <<"l", "o", "w", " ", "-", " ", "m", "i", "n", "o", "r", " ", "i", "s", "s", "u", "e">>
kwCosmetic ==
    <<"c", "o", "s", "m", "e", "t", "i", "c">>
kwUrgent ==
    <<"u", "r", "g", "e", "n", "t">>
kwCritical ==
    <<"c", "r", "i", "t", "i", "c", "a", "l">>

\* variant: the "low" rule tested before the "medium" rule
PriorityOf_LowBeforeMedium(title, body) ==
    IF includes(body, kwHighProductionSystem) \/ includes(body, kwProductionDown)
    THEN "Highest"
    ELSE IF includes(body, kwLowMinorIssue) \/ includes(body, kwCosmetic)
    THEN "Low"
    ELSE IF includes(body, kwMediumNonCritical)
    THEN "Medium"
    ELSE IF \/ includes(title, kwUrgent)
            \/ includes(title, kwCritical)
            \/ includes(body, kwUrgent)
    THEN "High"
    ELSE "Medium"

\* the if / else-if chain over the lower-cased body and title
PriorityOf(title, body) ==
    IF includes(body, kwHighProductionSystem) \/ includes(body, kwProductionDown)
    THEN "Highest"
    ELSE IF includes(body, kwMediumNonCritical)
    THEN "Medium"
    ELSE IF includes(body, kwLowMinorIssue) \/ includes(body, kwCosmetic)
    THEN "Low"
    ELSE IF \/ includes(title, kwUrgent)
            \/ includes(title, kwCritical)
            \/ includes(body, kwUrgent)
    THEN "High"
    ELSE "Medium"

\* (issueData.body || "").toLowerCase(): a truthy non-string has no
\* toLowerCase and the call throws.
mapPriority(issueData) ==
    IF OrEmpty(issueData.body).t # "string" \/ OrEmpty(issueData.title).t # "string"
    THEN Throw("toLowerCase")
    ELSE Return(Str(PriorityOf(toLowerCase(OrEmpty(issueData.title).s),
                               toLowerCase(OrEmpty(issueData.body).s))),
                "priority", << >>)

----------------------------------------------------------------------------
(* map-issue-type.js: mapGitHubIssueToJiraFields *)

areaREELS ==
    <<"R", "E", "E", "L", "S">>
areaALPHA ==
    <<"A", "L", "P", "H", "A">>
areaTRINITY ==
    <<"T", "R", "I", "N", "I", "T", "Y">>
areaAIHUB ==
    <<"A", "I", " ", "H", "U", "B">>

platformAreas == <<areaREELS, areaALPHA, areaTRINITY, areaAIHUB>>

\* ^ under the m flag: the start of the input or just after a line terminator
AtLineStart(s, i) == i = 1 \/ s[i - 1] \in LineTerminators
\* $ under the m flag: the end of the input or just before a line terminator
AtLineEnd(s, i) == i = Len(s) + 1 \/ s[i] \in LineTerminators
\* \s* consuming s[a..b]
AllWhiteSpace(s, a, b) == \A k \in a..b : s[k] \in WhiteSpace
\* the literal area at position i under the i flag
MatchesIgnoreCase(s, i, word) ==
    /\ i + Len(word) - 1 <= Len(s)
    /\ \A j \in 1..Len(word) : UpperChar(s[i + j - 1]) = UpperChar(word[j])

\* variant: the expression without its ^\s* and \s*$ anchors
areaRegexTest_Unanchored(area, s) ==
    \E at \in 1..(Len(s) + 1) : MatchesIgnoreCase(s, at, area)

\* new RegExp(`^\\s*${area}\\s*$`, "mi").test(body)
areaRegexTest(area, s) ==
    \E from \in 1..(Len(s) + 1) :
        /\ AtLineStart(s, from)
        /\ \E at \in from..(Len(s) + 1) :
            /\ AllWhiteSpace(s, from, at - 1)
            /\ MatchesIgnoreCase(s, at, area)
            /\ \E to \in (at + Len(area))..(Len(s) + 1) :
                /\ AllWhiteSpace(s, at + Len(area), to - 1)
                /\ AtLineEnd(s, to)

\* platformAreas.forEach(area => { if (areaRegex.test(body)) components.push(area) })
extractComponents(body) ==
    SelectSeq(platformAreas, LAMBDA area : areaRegexTest(area, body))

\* githubIssue.labels, absent
AbsentLabels == [t |-> "undefined", items |-> << >>]

\* typeof label === "string" ? label : label.name
LabelName(label) == IF label.t = "string" THEN label ELSE Str(label.v)

\* label.name throws on null and undefined
HasNoName(label) == label.t \in {"null", "undefined"}

\* githubIssue.labels ? githubIssue.labels.map(...) : []
NormalizeLabels(labels) ==
    IF labels.t # "array" THEN << >>
    ELSE [i \in 1..Len(labels.items) |-> LabelName(labels.items[i])]

\* variant: the raw githubIssue.labels handed to the label mapper
mapGitHubIssueToJiraFields_RawLabels(issue, store) ==
    IF issue.labels.t = "array" /\ \E i \in 1..Len(issue.labels.items) : HasNoName(issue.labels.items[i])
    THEN Throw("label.name")
    ELSE IF mapPriority(issue).kind = "throw"
    THEN mapPriority(issue)
    ELSE Return([issueType |-> mapGitHubLabelsToJiraIssueType(issue.labels, store).val,
                 priority |-> mapPriority(issue).val,
                 components |-> extractComponents(OrEmpty(issue.body).s),
                 labels |-> NormalizeLabels(issue.labels),
                 originalLabels |-> issue.labels],
                "fields",
                mapGitHubLabelsToJiraIssueType(issue.labels, store).log)

mapGitHubIssueToJiraFields(issue, store) ==
    IF issue.labels.t = "array" /\ \E i \in 1..Len(issue.labels.items) : HasNoName(issue.labels.items[i])
    THEN Throw("label.name")
    ELSE IF mapPriority(issue).kind = "throw"
    THEN mapPriority(issue)
    ELSE Return([issueType |-> mapGitHubLabelsToJiraIssueType(
                                  Array(NormalizeLabels(issue.labels)), store).val,
                 priority |-> mapPriority(issue).val,
                 components |-> extractComponents(OrEmpty(issue.body).s),
                 labels |-> NormalizeLabels(issue.labels),
                 originalLabels |-> issue.labels],
                "fields",
                mapGitHubLabelsToJiraIssueType(
                    Array(NormalizeLabels(issue.labels)), store).log)

----------------------------------------------------------------------------
(* adf-utils.js: textToADF *)

TextNode(s) == [type |-> "text", text |-> s]
Paragraph(s) == [type |-> "paragraph", content |-> <<TextNode(s)>>]

\* variant: the document carries another version number
Doc_Version2(content) == [type |-> "doc", version |-> 2, content |-> content]

\* { type: "doc", version: 1, content }
Doc(content) == [type |-> "doc", version |-> 1, content |-> content]

\* variant: only the empty lines are filtered out
NonBlankLines_KeepBlanks(s) == SelectSeq(split(s, "\n"), LAMBDA line : line # << >>)

\* text.split("\n").filter((line) => line.trim() !== "")
NonBlankLines(s) == SelectSeq(split(s, "\n"), LAMBDA line : trim(line) # << >>)

\* variant: the text node holds the line as it is
ParagraphsOf_NoTrim(lines) == [i \in 1..Len(lines) |-> Paragraph(lines[i])]

\* paragraphs.map(...)
ParagraphsOf(lines) == [i \in 1..Len(lines) |-> Paragraph(trim(lines[i]))]

\* variant: the guard without its typeof test
textToADF_NoTypeCheck(input) ==
    IF ~TruthyTxt(input)
    THEN Return(Doc(<< >>), "empty", << >>)
    ELSE IF input.t # "string"
    THEN Throw("split")
    ELSE Return(Doc(IF Len(ParagraphsOf(NonBlankLines(input.s))) > 0
                    THEN ParagraphsOf(NonBlankLines(input.s))
                    ELSE <<Paragraph(input.s)>>),
                "text", << >>)

textToADF(input) ==
    IF ~TruthyTxt(input) \/ input.t # "string"
    THEN Return(Doc(<< >>), "empty", << >>)
    ELSE IF input.t # "string"
    THEN Throw("split")
    ELSE Return(Doc(IF Len(ParagraphsOf(NonBlankLines(input.s))) > 0
                    THEN ParagraphsOf(NonBlankLines(input.s))
                    ELSE <<Paragraph(input.s)>>),
                "text", << >>)

----------------------------------------------------------------------------
(* adf-utils.js: the other document builders and isValidADF *)

\* an argument that is no array
NotAnArray == [t |-> "null", items |-> << >>]

\* { text, marks? } as createFormattedADF receives it
FormatNode(s, hasMarks, marks) == [text |-> s, hasMarks |-> hasMarks, marks |-> marks]
\* a null entry of textNodes
NullNode == [text |-> << >>, hasMarks |-> FALSE, marks |-> << >>, isNull |-> TRUE]

\* { type: "text", text: node.text, ...(node.marks && { marks: node.marks }) }
FormattedTextNode(node) ==
    IF node.hasMarks
    THEN [type |-> "text", text |-> node.text, marks |-> node.marks]
    ELSE TextNode(node.text)

\* textNodes.map throws on a non-array, node.text on a null node
createFormattedADF(textNodes) ==
    IF textNodes.t # "array"
    THEN Throw("map")
    ELSE IF \E i \in 1..Len(textNodes.items) : "isNull" \in DOMAIN textNodes.items[i]
    THEN Throw("node.text")
    ELSE Return(Doc(<<[type |-> "paragraph",
                       content |-> [i \in 1..Len(textNodes.items) |->
                                       FormattedTextNode(textNodes.items[i])]]>>),
                "formatted", << >>)

ListItem(s) == [type |-> "listItem", content |-> <<Paragraph(s)>>]

ListDoc(kind, items) ==
    Doc(<<[type |-> kind,
           content |-> [i \in 1..Len(items) |-> ListItem(items[i].s)]]>>)

createBulletListADF(items) ==
    IF items.t # "array" \/ Len(items.items) = 0
    THEN textToADF(Txt(<< >>))
    ELSE Return(ListDoc("bulletList", items.items), "list", << >>)

createOrderedListADF(items) ==
    IF items.t # "array" \/ Len(items.items) = 0
    THEN textToADF(Txt(<< >>))
    ELSE Return(ListDoc("orderedList", items.items), "list", << >>)

\* a level argument: an integer, or absent (the default 1 applies)
Level(n) == [t |-> "number", n |-> n]
AbsentLevel == [t |-> "undefined", n |-> 0]

MathMax(a, b) == IF a >= b THEN a ELSE b
MathMin(a, b) == IF a <= b THEN a ELSE b

\* variant: only the upper end is clamped
ValidLevel_NoLowerBound(level) ==
    MathMin(6, IF level.t = "undefined" THEN 1 ELSE level.n)

\* Math.max(1, Math.min(6, level))
ValidLevel(level) ==
    MathMax(1, MathMin(6, IF level.t = "undefined" THEN 1 ELSE level.n))

Heading(s, level) ==
    [type |-> "heading", attrs |-> [level |-> level], content |-> <<TextNode(s)>>]

createHeadingWithContentADF(headingText, level, content) ==
    Return(Doc(<<Heading(headingText.s, ValidLevel(level))>>
               \o (IF TruthyTxt(content) THEN <<Paragraph(content.s)>> ELSE << >>)),
           "heading", << >>)

\* attrs: language ? { language } : {}
CodeAttrs(language) ==
    IF TruthyTxt(language) THEN [language |-> language.s] ELSE [k \in {} |-> << >>]

createCodeBlockADF(code, language) ==
    Return(Doc(<<[type |-> "codeBlock", attrs |-> CodeAttrs(language),
                  content |-> <<TextNode(code.s)>>]>>),
           "code", << >>)

LinkMark(href) == [type |-> "link", attrs |-> [href |-> href]]

LinkNode(s, href) == [type |-> "text", text |-> s, marks |-> <<LinkMark(href)>>]

createLinkADF(linkText, url) ==
    Return(Doc(<<[type |-> "paragraph", content |-> <<LinkNode(linkText.s, url.s)>>]>>),
           "link", << >>)

\* null and undefined entries of contentBlocks
NullBlock == [type |-> "(null)"]
UndefinedBlock == [type |-> "(undefined)"]

\* contentBlocks.filter((block) => block != null); filter throws on a non-array
combineADFContent(contentBlocks) ==
    IF contentBlocks.t # "array"
    THEN Throw("filter")
    ELSE Return(Doc(SelectSeq(contentBlocks.items,
                              LAMBDA block : block \notin {NullBlock, UndefinedBlock})),
                "combine", << >>)

\* JSON.stringify(value) threw (a circular structure)
StringifyThrows == [t |-> "throws", s |-> << >>]

\* an object as a JavaScript value: its type and version properties (name
\* values), its content property (an array or not) and what
\* JSON.stringify gives for it (a text, undefined, or an exception)
ObjectValue(type, version, content, json) ==
    [t |-> "object", s |-> << >>, type |-> type, version |-> version,
     content |-> content, json |-> json]

\* a value that is no object: a string, null, undefined, a number
PlainValue(val) ==
    [t |-> val.t, s |-> val.s, type |-> Undefined, version |-> Undefined,
     content |-> AbsentLabels, json |-> AbsentTxt]

Number(digits) == [t |-> "number", v |-> digits]

\* the object a builder returned, as a JavaScript value; the program hands
\* no such object to JSON.stringify
DocValue(doc) ==
    ObjectValue(Str(doc.type), Number(ToString(doc.version)), Array(doc.content),
                AbsentTxt)

\* a boolean as a JavaScript value
Boolean(b) == [t |-> "boolean", b |-> b]

\* null, undefined, the empty string and 0 are falsy
Falsy(adf) ==
    \/ adf.t \in {"null", "undefined"}
    \/ adf.t = "string" /\ adf.s = << >>
    \/ adf.t = "number" /\ adf.s = <<"0">>

\* what isValidADF returns: adf && typeof adf === "object" &&
\* adf.type === "doc" && adf.version === 1 && Array.isArray(adf.content).
\* An && chain gives its first falsy operand, else its last one; every
\* operand after adf is a boolean
isValidADFValue(adf) ==
    IF Falsy(adf)
    THEN adf
    ELSE Boolean(/\ adf.t = "object"
                 /\ adf.type = Str("doc")
                 /\ adf.version = Number("1")
                 /\ adf.content.t = "array")

\* isValidADF(adf) where it is used as a condition
isValidADF(adf) == isValidADFValue(adf) = Boolean(TRUE)

----------------------------------------------------------------------------
(* create.js: createGitHubIssueADF *)

txtOriginalIssue ==
    <<"O", "r", "i", "g", "i", "n", "a", "l", " ", "G", "i", "t", "H", "u", "b", " ", "I", "s", "s", "u", "e", ":", " ">>
txtCreatedBy ==
    <<"C", "r", "e", "a", "t", "e", "d", " ", "b", "y", ":", " ">>
txtCreatedAt ==
    <<"C", "r", "e", "a", "t", "e", "d", " ", "a", "t", ":", " ">>
txtGitHubLabels ==
    <<"G", "i", "t", "H", "u", "b", " ", "L", "a", "b", "e", "l", "s", ":", " ">>
txtMappedTo ==
    <<"M", "a", "p", "p", "e", "d", " ", "t", "o", " ", "I", "s", "s", "u", "e", " ", "T", "y", "p", "e", ":", " ">>
txtPriority ==
    <<"P", "r", "i", "o", "r", "i", "t", "y", ":", " ">>
txtCommaSpace ==
    <<",", " ">>
txtUndefined ==
    <<"u", "n", "d", "e", "f", "i", "n", "e", "d">>
txtNull ==
    <<"n", "u", "l", "l">>
txtNativeFunction ==
    <<"f", "u", "n", "c", "t", "i", "o", "n", " ", "O", "b", "j", "e", "c", "t", "(", ")", " ", "{", " ", "[", "n", "a", "t", "i", "v", "e", " ", "c", "o", "d", "e", "]", " ", "}">>

\* the characters of the names the model uses
CharsOf ==
    ("Bug Report" :> <<"B", "u", "g", " ", "R", "e", "p", "o", "r", "t">>)
        @@ ("Improvement" :> <<"I", "m", "p", "r", "o", "v", "e", "m", "e", "n", "t">>)
        @@ ("Technical Support" :> <<"T", "e", "c", "h", "n", "i", "c", "a", "l", " ", "S", "u", "p", "p", "o", "r", "t">>)
        @@ ("Feature Request" :> <<"F", "e", "a", "t", "u", "r", "e", " ", "R", "e", "q", "u", "e", "s", "t">>)
        @@ ("New Feature" :> <<"N", "e", "w", " ", "F", "e", "a", "t", "u", "r", "e">>)
        @@ ("Unknown Label" :> <<"U", "n", "k", "n", "o", "w", "n", " ", "L", "a", "b", "e", "l">>)
        @@ ("constructor" :> <<"c", "o", "n", "s", "t", "r", "u", "c", "t", "o", "r">>)
        @@ ("Task" :> <<"T", "a", "s", "k">>)
        @@ ("Bug" :> <<"B", "u", "g">>)
        @@ ("Story" :> <<"S", "t", "o", "r", "y">>)
        @@ ("Highest" :> <<"H", "i", "g", "h", "e", "s", "t">>)
        @@ ("High" :> <<"H", "i", "g", "h">>)
        @@ ("Medium" :> <<"M", "e", "d", "i", "u", "m">>)
        @@ ("Low" :> <<"L", "o", "w">>)
        @@ ("Error reading mapping configuration" :> <<"E", "r", "r", "o", "r", " ", "r", "e", "a", "d", "i", "n", "g", " ", "m", "a", "p", "p", "i", "n", "g", " ", "c", "o", "n", "f", "i", "g", "u", "r", "a", "t", "i", "o", "n">>)
        @@ ("Falling back to default issue type: Task" :> <<"F", "a", "l", "l", "i", "n", "g", " ", "b", "a", "c", "k", " ", "t", "o", " ", "d", "e", "f", "a", "u", "l", "t", " ", "i", "s", "s", "u", "e", " ", "t", "y", "p", "e", ":", " ", "T", "a", "s", "k">>)
        @@ ("" :> << >>)

\* `${value}` for a value of the name domain
TemplateName(val) ==
    CASE val.t = "string" -> CharsOf[val.v]
      [] val.t = "undefined" -> txtUndefined
      [] val.t = "null" -> txtNull
      [] OTHER -> txtNativeFunction

\* `${value}` for a value of the text domain
TemplateTxt(val) ==
    CASE val.t = "undefined" -> txtUndefined
      [] val.t = "null" -> txtNull
      [] OTHER -> val.s

\* an element under Array.prototype.join: null and undefined give ""
JoinedName(val) ==
    IF val.t \in {"undefined", "null"} THEN << >> ELSE TemplateName(val)

\* labels.join(", ")
RECURSIVE JoinNames(_)
JoinNames(items) ==
    IF Len(items) = 0 THEN << >>
    ELSE IF Len(items) = 1 THEN JoinedName(items[1])
    ELSE JoinedName(items[1]) \o txtCommaSpace \o JoinNames(Tail(items))

\* mappingInfo: {} or what mapGitHubIssueToJiraFields returned
MappingInfo(labels, issueType, priority) ==
    [labels |-> labels, issueType |-> issueType, priority |-> priority]
EmptyMappingInfo == MappingInfo(AbsentLabels, Undefined, Undefined)

Rule == [type |-> "rule"]

EmParagraph(s) ==
    [type |-> "paragraph",
     content |-> <<[type |-> "text", text |-> s, marks |-> <<[type |-> "em"]>>]>>]

\* the four blocks every description starts with
HeaderBlocks(githubUrl, author, createdAt) ==
    <<[type |-> "paragraph",
       content |-> <<TextNode(txtOriginalIssue), LinkNode(githubUrl.s, githubUrl.s)>>],
      Paragraph(txtCreatedBy \o TemplateTxt(author)),
      Paragraph(txtCreatedAt \o TemplateTxt(createdAt)),
      Rule>>

\* variant: the priority paragraph is pushed before the issue type paragraph
MappingBlocks_PriorityFirst(mappingInfo) ==
    (IF mappingInfo.labels.t = "array" /\ Len(mappingInfo.labels.items) > 0
     THEN <<EmParagraph(txtGitHubLabels \o JoinNames(mappingInfo.labels.items))>>
     ELSE << >>)
    \o (IF Truthy(mappingInfo.priority)
        THEN <<EmParagraph(txtPriority \o TemplateName(mappingInfo.priority))>>
        ELSE << >>)
    \o (IF Truthy(mappingInfo.issueType)
        THEN <<EmParagraph(txtMappedTo \o TemplateName(mappingInfo.issueType))>>
        ELSE << >>)

\* the three optional paragraphs of the mapping
MappingBlocks(mappingInfo) ==
    (IF mappingInfo.labels.t = "array" /\ Len(mappingInfo.labels.items) > 0
     THEN <<EmParagraph(txtGitHubLabels \o JoinNames(mappingInfo.labels.items))>>
     ELSE << >>)
    \o (IF Truthy(mappingInfo.issueType)
        THEN <<EmParagraph(txtMappedTo \o TemplateName(mappingInfo.issueType))>>
        ELSE << >>)
    \o (IF Truthy(mappingInfo.priority)
        THEN <<EmParagraph(txtPriority \o TemplateName(mappingInfo.priority))>>
        ELSE << >>)

\* body && body.trim()
HasBody(body) == TruthyTxt(body) /\ trim(body.s) # << >>

\* variant: the body keeps its white-space-only lines
BodyLines_KeepBlanks(body) == SelectSeq(split(body.s, "\n"), LAMBDA line : line # << >>)

\* body.split("\n").filter((line) => line.trim() !== "")
BodyLines(body) == SelectSeq(split(body.s, "\n"), LAMBDA line : trim(line) # << >>)

\* paragraphs.forEach(...): one paragraph per line, trimmed
BodyParagraphs(lines) == [i \in 1..Len(lines) |-> Paragraph(trim(lines[i]))]

\* the second rule and the body paragraphs
BodyBlocks(body) ==
    IF HasBody(body) THEN <<Rule>> \o BodyParagraphs(BodyLines(body)) ELSE << >>

\* body.trim throws on a truthy body that is no string
createGitHubIssueADF(githubUrl, author, createdAt, body, mappingInfo) ==
    IF TruthyTxt(body) /\ body.t # "string"
    THEN Throw("body.trim")
    ELSE Return(Doc(HeaderBlocks(githubUrl, author, createdAt)
                    \o MappingBlocks(mappingInfo)
                    \o BodyBlocks(body)),
                "github", << >>)

----------------------------------------------------------------------------
(* create.js: createIssue *)

\* the environment create.js reads when it is loaded
Env(username, password, baseUrl, projectKey, githubOutput) ==
    [JIRA_USER_EMAIL |-> username, JIRA_API_TOKEN |-> password,
     JIRA_BASE_URL |-> baseUrl, JIRA_PROJECT_KEY |-> projectKey,
     GITHUB_OUTPUT |-> githubOutput]

\* const auth = { username, password }
auth(env) == [username |-> env.JIRA_USER_EMAIL, password |-> env.JIRA_API_TOKEN]

\* description && typeof description === "object"
IsObject(description) == TruthyTxt(description) /\ description.t = "object"

\* JSON.stringify(description) throws, inside the try block
StringifyFails(description) ==
    /\ description.t # "string"
    /\ IsObject(description)
    /\ ~isValidADF(description)
    /\ description.json = StringifyThrows

\* variant: an object is always taken for a document
adfDescription_TrustObjects(description) ==
    IF description.t = "string"
    THEN DocValue(textToADF(Txt(description.s)).val)
    ELSE IF IsObject(description)
    THEN description
    ELSE DocValue(textToADF(Txt(<< >>)).val)

\* the four branches that set adfDescription
adfDescription(description) ==
    IF description.t = "string"
    THEN DocValue(textToADF(Txt(description.s)).val)
    ELSE IF IsObject(description) /\ isValidADF(description)
    THEN description
    ELSE IF IsObject(description)
    THEN DocValue(textToADF(description.json).val)
    ELSE DocValue(textToADF(Txt(<< >>)).val)

\* no additionalFields: {}
NoFields == [k \in {} |-> Undefined]

\* the four keys createIssue sets itself
FixedFields(projectKey, issueType, summary, description) ==
    [project |-> [key |-> projectKey],
     summary |-> summary,
     description |-> adfDescription(description),
     issuetype |-> [name |-> issueType]]

\* data.fields: ...additionalFields is spread last, its keys win
Fields(projectKey, issueType, summary, description, additionalFields) ==
    additionalFields @@ FixedFields(projectKey, issueType, summary, description)

\* axios.post(`${baseUrl}/rest/api/3/issue`, data, config)
Request(env, fields) ==
    [method |-> "POST", base |-> env.JIRA_BASE_URL, path |-> "/rest/api/3/issue",
     data |-> [fields |-> fields],
     config |-> [headers |-> [ContentType |-> "application/json"], auth |-> auth(env)]]

\* what axios.post rejects with, or what JSON.stringify throws: response
\* says whether error.response.data.errors is there
Error(message, response) == [message |-> message, response |-> response]

NetworkError == Error("connect ECONNREFUSED", "none")
RejectedWithErrors == Error("Request failed with status code 400", "errors")
RejectedWithoutErrors == Error("Request failed with status code 401", "no errors")
CircularError == Error("Converting circular structure to JSON", "none")

\* a line of the console
Line(stream, what, val) == [stream |-> stream, what |-> what, val |-> val]

\* the catch block of createIssue up to its throw
CatchLog(error) ==
    <<Line("error", "Error creating Jira issue:", Undefined),
      IF error.response = "errors"
      THEN Line("error", "error.response.data.errors", error)
      ELSE Line("error", "error.message", Str(error.message))>>

\* variant: the request, configuration included, is printed instead of data
Post_LogsRequest(process, env, projectKey, issueType, summary, description, additionalFields) ==
    [process EXCEPT
        !.pc = "awaiting",
        !.adfDescription = adfDescription(description),
        !.response = Undefined,
        !.console = Append(@, Line("log", "data", Request(env,
            Fields(projectKey, issueType, summary, description, additionalFields)))),
        !.requests = Append(@, Request(env,
            Fields(projectKey, issueType, summary, description, additionalFields)))]

\* createIssue up to its await: the payload is assembled, printed and posted
Post(process, env, projectKey, issueType, summary, description, additionalFields) ==
    [process EXCEPT
        !.pc = "awaiting",
        !.adfDescription = adfDescription(description),
        !.response = Undefined,
        !.console = Append(@, Line("log", "data",
            [fields |-> Fields(projectKey, issueType, summary, description,
                               additionalFields)])),
        !.requests = Append(@, Request(env,
            Fields(projectKey, issueType, summary, description, additionalFields)))]

\* the promise of createIssue fulfilled: return response.data.key
Fulfilled(key) == [kind |-> "return", val |-> key, path |-> "key", log |-> << >>]

\* variant: the catch block throws an error of its own
Rejected_NewError(error) ==
    [kind |-> "throw", val |-> Error("Failed to create issue", "none"), path |-> "catch",
     log |-> CatchLog(error)]

\* the promise of createIssue rejected: throw error
Rejected(error) == [kind |-> "throw", val |-> error, path |-> "catch", log |-> CatchLog(error)]

----------------------------------------------------------------------------
(* map-issue-type.js: the command line *)

txtJsonNull ==
    <<"n", "u", "l", "l">>
txtJsonObject ==
    <<"{", "}">>

\* a JSON string without escapes: "..."
IsJsonString(e) ==
    /\ Len(e) >= 2
    /\ e[1] = "\"" /\ e[Len(e)] = "\""
    /\ \A i \in 2..(Len(e) - 1) : e[i] \notin {"\"", "\\"}

\* the name whose characters these are
NameOf(chars) == Str(CHOOSE n \in DOMAIN CharsOf : CharsOf[n] = chars)

\* a value JSON.parse gives that is no array: for..of and .map throw on it
NotIterable(t) == [t |-> t, items |-> << >>]

\* JSON.parse threw a SyntaxError
SyntaxError == [t |-> "SyntaxError", items |-> << >>]

\* JSON.parse on the texts a labels argument can be: null, {}, an array of
\* escape-free strings; any other text is no JSON
JSONparse(s) ==
    LET t == trim(s)
        elements == split(SubSeq(t, 2, Len(t) - 1), ",")
    IN  IF t = txtJsonNull THEN NotIterable("null")
        ELSE IF t = txtJsonObject THEN NotIterable("object")
        ELSE IF Len(t) < 2 \/ t[1] # "[" \/ t[Len(t)] # "]" THEN SyntaxError
        ELSE IF trim(SubSeq(t, 2, Len(t) - 1)) = << >> THEN Array(<< >>)
        ELSE IF \E i \in 1..Len(elements) : ~IsJsonString(trim(elements[i])) THEN SyntaxError
        ELSE Array([i \in 1..Len(elements) |->
                       NameOf(SubSeq(trim(elements[i]), 2, Len(trim(elements[i])) - 1))])

\* process.exit(1) after the usage lines
UsageExit(process) ==
    [process EXCEPT !.pc = "exited", !.exitCode = 1,
                    !.console = @ \o <<Line("error", "Usage:", Undefined),
                                        Line("error", "Example:", Undefined)>>]

\* the lines mapGitHubLabelsToJiraIssueType printed: console.error comes
\* first in its catch block, every other line is a console.log
MapperLines(outcome) ==
    [i \in 1..Len(outcome.log) |->
        Line(IF outcome.path = "fallback" /\ i = 1 THEN "error" ELSE "log", "", outcome.log[i])]

\* the try block: the mapper runs and the workflow output is appended
ClassifyOutput(process, env, outcome) ==
    [process EXCEPT
        !.pc = "exited",
        !.console = @ \o MapperLines(outcome),
        !.output = IF Truthy(env.GITHUB_OUTPUT)
                   THEN Append(@, Line("file", "jira-issue-type=", outcome.val))
                   ELSE @]

\* variant: process.exit(1) is missing from the catch block
ClassifyCatch_NoExit(process) ==
    [process EXCEPT !.pc = "exited",
                    !.console = Append(@, Line("error", "Error parsing GitHub labels:",
                                               Undefined))]

\* the catch block: the message and process.exit(1)
ClassifyCatch(process) ==
    [process EXCEPT !.pc = "exited", !.exitCode = 1,
                    !.console = Append(@, Line("error", "Error parsing GitHub labels:",
                                               Undefined))]

----------------------------------------------------------------------------
(* create.js: the command line *)

\* an issue as the mappers read it: { title, body, labels }
Issue(title, body, labels) == [title |-> title, body |-> body, labels |-> labels]

\* the argument at a position of process.argv.slice(2); undefined past the end
Arg(argv, i) == IF i <= Len(argv) THEN Txt(argv[i]) ELSE AbsentTxt

\* variant: the project key is not checked
EnvMissing_ThreeOfFour(env) ==
    \/ ~Truthy(env.JIRA_USER_EMAIL)
    \/ ~Truthy(env.JIRA_API_TOKEN)
    \/ ~Truthy(env.JIRA_BASE_URL)

\* !username || !password || !baseUrl || !projectKey
EnvMissing(env) ==
    \/ ~Truthy(env.JIRA_USER_EMAIL)
    \/ ~Truthy(env.JIRA_API_TOKEN)
    \/ ~Truthy(env.JIRA_BASE_URL)
    \/ ~Truthy(env.JIRA_PROJECT_KEY)

\* process.exit(1) after the lines that name the four variables
EnvExit(process) ==
    [process EXCEPT !.pc = "exited", !.exitCode = 1,
                    !.console = @ \o <<Line("error", "Missing required environment variables:",
                                             Undefined)>>]

\* what the labels block leaves behind
Mapped(mappingInfo, additionalFields, lines) ==
    [mappingInfo |-> mappingInfo, additionalFields |-> additionalFields, lines |-> lines]

\* variant: the catch block of the labels block prints nothing
LabelsCatch_Silent == Mapped(EmptyMappingInfo, NoFields, << >>)

\* the catch block of the labels block: a warning, and the run goes on
LabelsCatch ==
    Mapped(EmptyMappingInfo, NoFields,
           <<Line("warn", "Could not parse GitHub labels:", Undefined)>>)

\* additionalFields.priority and additionalFields.components
MappedFields(mapping) ==
    (IF Truthy(mapping.priority)
     THEN "priority" :> [name |-> mapping.priority] ELSE NoFields)
    @@ (IF Len(mapping.components) > 0
        THEN "components" :> [i \in 1..Len(mapping.components) |->
                                 [name |-> mapping.components[i]]]
        ELSE NoFields)

\* the lines the labels block prints about the mapping
MappedLines(mapping) ==
    <<Line("log", "GitHub Labels:", Str("")),
      Line("log", "Mapped Issue Type:", mapping.issueType),
      Line("log", "Mapped Priority:", mapping.priority)>>
    \o (IF Len(mapping.components) > 0
        THEN <<Line("log", "Mapped Components:", Str(""))>> ELSE << >>)

\* if (githubLabelsJson) { try { ... } catch { ... } }
LabelsBlock(argv, store) ==
    IF ~TruthyTxt(Arg(argv, 7))
    THEN Mapped(EmptyMappingInfo, NoFields, << >>)
    ELSE IF JSONparse(argv[7]).t # "array"
    THEN LabelsCatch
    ELSE LET labels == JSONparse(argv[7]).items
             mockIssue == Issue(Arg(argv, 2), Arg(argv, 3),
                                Array([i \in 1..Len(labels) |-> LabelObj(labels[i].v)]))
             mapping == mapGitHubIssueToJiraFields(mockIssue, store)
         IN  IF mapping.kind = "throw"
             THEN LabelsCatch
             ELSE Mapped(MappingInfo(Array(mapping.val.labels), mapping.val.issueType,
                                     mapping.val.priority),
                         MappedFields(mapping.val),
                         MapperLines(mapping) \o MappedLines(mapping.val))

\* githubUrl && author && createdAt ? createGitHubIssueADF(...) : description
finalDescription(argv, mappingInfo) ==
    IF TruthyTxt(Arg(argv, 4)) /\ TruthyTxt(Arg(argv, 5)) /\ TruthyTxt(Arg(argv, 6))
    THEN DocValue(createGitHubIssueADF(Arg(argv, 4), Arg(argv, 5), Arg(argv, 6),
                                       Arg(argv, 3), mappingInfo).val)
    ELSE PlainValue(Arg(argv, 3))

\* `${baseUrl}/browse/${issueKey}`
BrowseUrl(env, issueKey) == [base |-> env.JIRA_BASE_URL, path |-> "/browse/", key |-> issueKey]

\* variant: the URL is appended before the key
SuccessOutput_UrlFirst(process, env, issueKey) ==
    [process EXCEPT
        !.pc = "exited",
        !.response = [data |-> [key |-> issueKey]],
        !.console = @ \o <<Line("log", "Successfully created Jira issue:", issueKey),
                            Line("log", "Issue URL:", BrowseUrl(env, issueKey))>>,
        !.output = IF Truthy(env.GITHUB_OUTPUT)
                   THEN @ \o <<Line("file", "jira-url=", BrowseUrl(env, issueKey)),
                               Line("file", "jira-key=", issueKey)>>
                   ELSE @]

\* what follows a fulfilled createIssue: two lines and the workflow outputs
SuccessOutput(process, env, issueKey) ==
    [process EXCEPT
        !.pc = "exited",
        !.response = [data |-> [key |-> issueKey]],
        !.console = @ \o <<Line("log", "Successfully created Jira issue:", issueKey),
                            Line("log", "Issue URL:", BrowseUrl(env, issueKey))>>,
        !.output = IF Truthy(env.GITHUB_OUTPUT)
                   THEN @ \o <<Line("file", "jira-key=", issueKey),
                               Line("file", "jira-url=", BrowseUrl(env, issueKey))>>
                   ELSE @]

\* variant: the outer catch block prints and lets the process end normally
FailureExit_NoExit(process, error) ==
    [process EXCEPT
        !.pc = "exited",
        !.response = error,
        !.console = @ \o CatchLog(error)
                      \o <<Line("error", "Failed to create Jira issue", Undefined)>>]

\* what follows a rejected createIssue: its catch block, then the outer one
FailureExit(process, error) ==
    [process EXCEPT
        !.pc = "exited",
        !.exitCode = 1,
        !.response = error,
        !.console = @ \o CatchLog(error)
                      \o <<Line("error", "Failed to create Jira issue", Undefined)>>]

----------------------------------------------------------------------------
(* The inputs the calls are made with. *)

lineHighProduction ==
    <<"H", "i", "g", "h", " ", "-", " ", "P", "r", "o", "d", "u", "c", "t", "i", "o", "n", " ", "s", "y", "s", "t", "e", "m", " ", "i", "s", " ", "d", "o", "w", "n", ".">>
lineProductionDown ==
    <<"P", "R", "O", "D", "U", "C", "T", "I", "O", "N", " ", "D", "O", "W", "N">>
lineMediumNonCritical ==
    <<"M", "e", "d", "i", "u", "m", " ", "-", " ", "A", " ", "n", "o", "n", "-", "c", "r", "i", "t", "i", "c", "a", "l", " ", "f", "e", "a", "t", "u", "r", "e", " ", "i", "s", " ", "n", "o", "t", " ", "w", "o", "r", "k", "i", "n", "g", ".">>
lineLowMinorIssue ==
    <<"L", "o", "w", " ", "-", " ", "M", "i", "n", "o", "r", " ", "i", "s", "s", "u", "e", ".">>
lineCosmetic ==
    <<"C", "o", "s", "m", "e", "t", "i", "c", " ", "g", "l", "i", "t", "c", "h">>
lineUrgent ==
    <<"T", "h", "i", "s", " ", "i", "s", " ", "U", "r", "g", "e", "n", "t">>
lineCriticalBusiness ==
    <<"H", "i", "g", "h", " ", "-", " ", "C", "r", "i", "t", "i", "c", "a", "l", " ", "f", "o", "r", " ", "b", "u", "s", "i", "n", "e", "s", "s", " ", "o", "p", "e", "r", "a", "t", "i", "o", "n", "s">>
lineGeneric ==
    <<"S", "o", "m", "e", " ", "g", "e", "n", "e", "r", "i", "c", " ", "i", "s", "s", "u", "e">>
titleUrgent ==
    <<"U", "R", "G", "E", "N", "T", ":", " ", "f", "i", "x", " ", "l", "o", "g", "i", "n">>
titleCritical ==
    <<"C", "r", "i", "t", "i", "c", "a", "l", " ", "b", "u", "g", " ", "i", "n", " ", "s", "e", "a", "r", "c", "h">>
titleUntitled ==
    <<"U", "n", "t", "i", "t", "l", "e", "d", " ", "i", "s", "s", "u", "e">>
lineReels ==
    <<"R", "E", "E", "L", "S">>
lineReelsPadded ==
    <<" ", "r", "e", "e", "l", "s", "\t">>
lineReelsInline ==
    <<"m", "y", " ", "R", "E", "E", "L", "S", " ", "t", "h", "i", "n", "g">>
lineAiHub ==
    <<"A", "I", " ", "H", "U", "B">>
lineAiHubWide ==
    <<"A", "I", " ", " ", "H", "U", "B">>
lineAlphaCr ==
    <<"A", "l", "p", "h", "a", "\r">>
lineTrinity ==
    <<"T", "R", "I", "N", "I", "T", "Y">>
lineCrTrinity ==
    <<"x", "\r", "T", "r", "i", "n", "i", "t", "y">>
txtLine1 ==
    <<"L", "i", "n", "e", " ", "1">>
txtPadded ==
    <<" ", " ", "L", "i", "n", "e", " ", "2", " ", "\t">>
txtBlanks ==
    <<" ", "\t">>
txtCr ==
    <<"a", "\r", "b">>

RECURSIVE JoinLines(_)
JoinLines(lines) ==
    IF Len(lines) = 1 THEN lines[1]
    ELSE lines[1] \o <<"\n">> \o JoinLines(Tail(lines))

\* the texts of one to MaxLines lines drawn from lineSet
TextsOf(lineSet) ==
    {JoinLines(lines) : lines \in UNION {[1..n -> lineSet] : n \in 1..MaxLines}}

\* label-mapping.json as JIRA_MAPPING_SUMMARY.md gives it
SummaryConfig ==
    ConfigObject(TRUE,
                 ("Bug Report" :> Str("Bug Report")) @@ ("Improvement" :> Str("Improvement"))
                     @@ ("Technical Support" :> Str("Technical Support"))
                     @@ ("Feature Request" :> Str("New Feature")),
                 Str("Technical Support"))

\* label-mapping.json as README.md gives it
ReadmeConfig ==
    ConfigObject(TRUE,
                 ("Bug Report" :> Str("Bug")) @@ ("Improvement" :> Str("Story"))
                     @@ ("Technical Support" :> Str("Task")),
                 Str("Task"))

\* a label mapped to the empty issue type name
BlankValueConfig ==
    ConfigObject(TRUE,
                 ("Bug Report" :> Str("")) @@ ("Improvement" :> Str("Story")),
                 Str("Technical Support"))

\* { "mappings": {} } : no defaultIssueType
NoDefaultConfig == ConfigObject(TRUE, NoProps, Undefined)

ConfigStores ==
    {MissingFile, UnparsableFile, Loaded(JsonNull), Loaded(EmptyConfig),
     Loaded(NoDefaultConfig), Loaded(SummaryConfig), Loaded(ReadmeConfig),
     Loaded(BlankValueConfig)}

LabelValues ==
    {Str("Bug Report"), Str("Improvement"), Str("Unknown Label"), Str("constructor")}

ListsOf(values) == UNION {[1..n -> values] : n \in 0..MaxLabels}

LabelArguments == {Array(items) : items \in ListsOf(LabelValues)} \cup {NullLabels}

NoIssue == Issue(AbsentTxt, AbsentTxt, AbsentLabels)

lineMediumImprove ==
    <<"M", "e", "d", "i", "u", "m", " ", "-", " ", "W", "o", "u", "l", "d", " ", "s", "i", "g", "n", "i", "f", "i", "c", "a", "n", "t", "l", "y", " ", "i", "m", "p", "r", "o", "v", "e", " ", "w", "o", "r", "k", "f", "l", "o", "w", "s">>
lineLowNiceToHave ==
    <<"L", "o", "w", " ", "-", " ", "N", "i", "c", "e", " ", "t", "o", " ", "h", "a", "v", "e", " ", "e", "n", "h", "a", "n", "c", "e", "m", "e", "n", "t">>

\* the issues of the feature request template: one urgency phrase per line
FeatureRequestIssues ==
    {Issue(title, Txt(s), AbsentLabels) :
        title \in {AbsentTxt, Txt(titleUntitled)},
        s \in TextsOf({lineCriticalBusiness, lineMediumImprove, lineLowNiceToHave,
                       lineGeneric})}

PriorityLines ==
    {lineHighProduction, lineProductionDown, lineMediumNonCritical, lineLowMinorIssue,
     lineCosmetic, lineUrgent, lineCriticalBusiness, lineGeneric}

TitleValues ==
    {AbsentTxt, Txt(<< >>), Txt(titleUrgent), Txt(titleCritical), Txt(titleUntitled)}

PriorityIssues ==
    {Issue(title, body, AbsentLabels) :
        title \in TitleValues,
        body \in {AbsentTxt, Txt(<< >>)} \cup {Txt(s) : s \in TextsOf(PriorityLines)}}

ComponentLines ==
    {lineReels, lineReelsPadded, lineReelsInline, lineAiHub, lineAiHubWide,
     lineAlphaCr, lineTrinity, lineCrTrinity, << >>}

\* issues that vary the body under the documented configuration
ComponentIssues ==
    {Issue(Txt(titleUntitled), Txt(s), Array(<<LabelObj("Bug Report")>>)) :
        s \in TextsOf(ComponentLines)}

FieldLabelValues ==
    {Str("Improvement"), LabelObj("Bug Report"), LabelObj("Unknown Label"), Null}

FieldConfigStores ==
    {MissingFile, UnparsableFile, Loaded(EmptyConfig), Loaded(SummaryConfig)}

FieldBodies ==
    {AbsentTxt, Txt(<< >>), Txt(JoinLines(<<lineReels, lineHighProduction>>))}

\* issues that vary the labels, the title and the configuration store
FieldIssues ==
    {Issue(title, body, labels) :
        title \in {AbsentTxt, Txt(titleUrgent)},
        body \in FieldBodies,
        labels \in {Array(items) : items \in ListsOf(FieldLabelValues)} \cup {AbsentLabels}}

AdfLines == {txtLine1, txtPadded, txtBlanks, txtCr, << >>}

AdfInputs ==
    {Txt(s) : s \in TextsOf(AdfLines)}
        \cup {AbsentTxt, NullTxt, NumberTxt(<<"0">>), NumberTxt(<<"5">>), ObjectTxt}

txtUrl ==
    <<"h", "t", "t", "p", "s", ":", "/", "/", "g", "i", "t", "h", "u", "b", ".", "c", "o", "m", "/", "o", "/", "r", "/", "i", "s", "s", "u", "e", "s", "/", "1">>
txtAuthor ==
    <<"o", "c", "t", "o", "c", "a", "t">>
txtCreated ==
    <<"2", "0", "2", "3", "-", "0", "1", "-", "0", "1", "T", "0", "0", ":", "0", "0", ":", "0", "0", "Z">>
txtBold ==
    <<"b", "o", "l", "d">>
txtJs ==
    <<"j", "a", "v", "a", "s", "c", "r", "i", "p", "t">>

\* arguments of createFormattedADF
FormatNodes ==
    {FormatNode(txtLine1, FALSE, << >>),
     FormatNode(txtBold, TRUE, <<[type |-> "strong"]>>),
     NullNode}

FormattedArguments ==
    {Array(items) : items \in ListsOf(FormatNodes)} \cup {NotAnArray}

\* arguments of createBulletListADF and createOrderedListADF
ListArguments ==
    {Array(items) : items \in ListsOf({Txt(txtLine1), Txt(txtPadded)})}
        \cup {NotAnArray}

\* arguments of createHeadingWithContentADF
HeadingLevels == {Level(n) : n \in {-1, 0, 1, 3, 6, 7}} \cup {AbsentLevel}

HeadingArguments ==
    [headingText : {Txt(txtLine1)},
     level : HeadingLevels,
     content : {Txt(<< >>), Txt(txtPadded), Txt(txtBlanks), AbsentTxt}]

\* arguments of createCodeBlockADF
CodeArguments ==
    [code : {Txt(txtLine1), Txt(txtCr)},
     language : {Txt(txtJs), Txt(<< >>), AbsentTxt, NullTxt}]

\* arguments of createLinkADF
LinkArguments == [linkText : {Txt(txtLine1), Txt(<< >>)}, url : {Txt(txtUrl), Txt(<< >>)}]

\* arguments of combineADFContent
ContentBlocks == {Paragraph(txtLine1), Rule, NullBlock, UndefinedBlock}

CombineArguments ==
    {Array(items) : items \in ListsOf(ContentBlocks)} \cup {NotAnArray}

\* arguments of createGitHubIssueADF
MappingInfos ==
    {MappingInfo(labels, issueType, priority) :
        labels \in {Array(items) : items \in ListsOf({Str("Bug Report"), Str("Improvement")})}
                       \cup {AbsentLabels},
        issueType \in {Str("Bug"), Str(""), Undefined},
        priority \in {Str("High"), Undefined}}

GitHubBodies ==
    {Txt(s) : s \in TextsOf({txtLine1, txtPadded, txtBlanks})}
        \cup {Txt(<< >>), AbsentTxt, NullTxt, ObjectTxt}

GitHubArguments ==
    [githubUrl : {Txt(txtUrl)},
     author : {Txt(txtAuthor), AbsentTxt},
     createdAt : {Txt(txtCreated)},
     body : GitHubBodies,
     mappingInfo : MappingInfos]

jsonPlainObject ==
    <<"{", "\"", "a", "\"", ":", "1", "}">>
jsonVersion2Doc ==
    <<"{", "\"", "t", "y", "p", "e", "\"", ":", "\"", "d", "o", "c", "\"", ",", "\"", "v", "e", "r", "s", "i", "o", "n", "\"", ":", "2", ",", "\"", "c", "o", "n", "t", "e", "n", "t", "\"", ":", "[", "]", "}">>
jsonStringVersionDoc ==
    <<"{", "\"", "t", "y", "p", "e", "\"", ":", "\"", "d", "o", "c", "\"", ",", "\"", "v", "e", "r", "s", "i", "o", "n", "\"", ":", "\"", "1", "\"", ",", "\"", "c", "o", "n", "t", "e", "n", "t", "\"", ":", "[", "]", "}">>
jsonNoContentDoc ==
    <<"{", "\"", "t", "y", "p", "e", "\"", ":", "\"", "d", "o", "c", "\"", ",", "\"", "v", "e", "r", "s", "i", "o", "n", "\"", ":", "1", "}">>
txtOtherSummary ==
    <<"O", "t", "h", "e", "r", " ", "s", "u", "m", "m", "a", "r", "y">>

jsonDocumentObject ==
    <<"{", "\"", "t", "y", "p", "e", "\"", ":", "\"", "d", "o", "c", "\"", ",", "\"", "v", "e", "r", "s", "i", "o", "n", "\"", ":", "1", ",", "\"", "c", "o", "n", "t", "e", "n", "t", "\"", ":", "[", "{", "\"", "t", "y", "p", "e", "\"", ":", "\"", "p", "a", "r", "a", "g", "r", "a", "p", "h", "\"", ",", "\"", "c", "o", "n", "t", "e", "n", "t", "\"", ":", "[", "{", "\"", "t", "y", "p", "e", "\"", ":", "\"", "t", "e", "x", "t", "\"", ",", "\"", "t", "e", "x", "t", "\"", ":", "\"", "L", "i", "n", "e", " ", "1", "\"", "}", "]", "}", "]", "}">>

\* descriptions handed to createIssue
DocumentObject ==
    ObjectValue(Str("doc"), Number("1"), Array(<<Paragraph(txtLine1)>>),
                Txt(jsonDocumentObject))

OtherObjects ==
    {ObjectValue(Undefined, Undefined, AbsentLabels, Txt(jsonPlainObject)),
     ObjectValue(Str("doc"), Number("2"), Array(<< >>), Txt(jsonVersion2Doc)),
     ObjectValue(Str("doc"), Str("1"), Array(<< >>), Txt(jsonStringVersionDoc)),
     ObjectValue(Str("doc"), Number("1"), AbsentLabels, Txt(jsonNoContentDoc)),
     ObjectValue(Undefined, Undefined, AbsentLabels, AbsentTxt),
     ObjectValue(Undefined, Undefined, AbsentLabels, StringifyThrows)}

Descriptions ==
    {PlainValue(Txt(s)) : s \in TextsOf({txtLine1, txtPadded})}
        \cup {PlainValue(v) : v \in {Txt(<< >>), NullTxt, AbsentTxt, NumberTxt(<<"5">>),
                                     NumberTxt(<<"0">>)}}
        \cup {DocumentObject, DocValue(Doc(<< >>))}
        \cup OtherObjects

\* additionalFields handed to createIssue
AdditionalFields ==
    {NoFields,
     "priority" :> [name |-> Str("High")],
     ("priority" :> [name |-> Str("High")]) @@ ("components" :> <<[name |-> Str("REELS")]>>),
     "project" :> [key |-> Str("OTHER")],
     "summary" :> Txt(txtOtherSummary),
     "description" :> DocValue(Doc(<< >>)),
     "issuetype" :> [name |-> Str("Epic")]}

JiraEnv == Env(Str("bot@example.com"), Str("api-token"),
               Str("https://example.atlassian.net"), Str("PROJ"), Undefined)

CreateIssueArguments ==
    [env : {JiraEnv},
     projectKey : {Str("PROJ")},
     issueType : {Str("Task")},
     summary : {Txt(txtLine1)},
     description : Descriptions,
     additionalFields : AdditionalFields]

\* what the Jira server answers a ticket-creation request with
ResponseKeys == {Str("PROJ-1"), Str("PROJ-2")}
ResponseErrors == {NetworkError, RejectedWithErrors, RejectedWithoutErrors}

argBugReport ==
    <<"[", "\"", "B", "u", "g", " ", "R", "e", "p", "o", "r", "t", "\"", "]">>
argUnknown ==
    <<"[", "\"", "U", "n", "k", "n", "o", "w", "n", " ", "L", "a", "b", "e", "l", "\"", "]">>
argTwoLabels ==
    <<"[", "\"", "U", "n", "k", "n", "o", "w", "n", " ", "L", "a", "b", "e", "l", "\"", ",", " ", "\"", "I", "m", "p", "r", "o", "v", "e", "m", "e", "n", "t", "\"", "]">>
argConstructor ==
    <<"[", "\"", "c", "o", "n", "s", "t", "r", "u", "c", "t", "o", "r", "\"", "]">>
argEmptyArray ==
    <<"[", "]">>
argNull ==
    <<"n", "u", "l", "l">>
argObject ==
    <<"{", "}">>
argUnclosed ==
    <<"[", "\"", "B", "u", "g", " ", "R", "e", "p", "o", "r", "t", "\"">>
argBare ==
    <<"B", "u", "g", " ", "R", "e", "p", "o", "r", "t">>
argConfigPath ==
    <<".", "/", "c", "u", "s", "t", "o", "m", "-", "m", "a", "p", "p", "i", "n", "g", ".", "j", "s", "o", "n">>

\* labels arguments of the two command lines
LabelsJsonTexts ==
    {argBugReport, argUnknown, argTwoLabels, argConstructor, argEmptyArray, argNull,
     argObject, argUnclosed, argBare, << >>}

\* process.argv.slice(2) of map-issue-type.js
ClassifyArgv ==
    {<< >>} \cup {<<l>> : l \in LabelsJsonTexts}
        \cup {<<l, argConfigPath>> : l \in LabelsJsonTexts}

OutputEnvs ==
    {Env(Undefined, Undefined, Undefined, Undefined, o) :
        o \in {Undefined, Str(""), Str("/tmp/github_output")}}

\* process.argv.slice(2) of create.js
CreateArgv ==
    LET required == {<<CharsOf["Task"], s, d>> :
                        s \in {txtLine1, titleUrgent},
                        d \in {txtLine1, JoinLines(<<lineLowMinorIssue, lineReels>>)}}
        metadata == {<<txtUrl, txtAuthor, txtCreated>>, <<txtUrl, << >>, txtCreated>>}
    IN  {<< >>, <<CharsOf["Task"], txtLine1>>}
            \cup required
            \cup {r \o m : r \in required, m \in metadata}
            \cup {r \o m \o <<l>> : r \in required, m \in metadata, l \in LabelsJsonTexts}

\* the environment of create.js: complete, or with one variable missing
CreateEnvs ==
    {[JiraEnv EXCEPT !.GITHUB_OUTPUT = o] :
        o \in {Undefined, Str(""), Str("/tmp/github_output")}}
        \cup {[JiraEnv EXCEPT ![k] = v] :
                 k \in {"JIRA_USER_EMAIL", "JIRA_API_TOKEN", "JIRA_BASE_URL",
                        "JIRA_PROJECT_KEY"},
                 v \in {Undefined, Str("")}}

\* the arguments of two runs of the asynchronous block that are in flight
\* at once: complete argument lists for different issues
ParallelArgv ==
    {a \in CreateArgv :
        /\ Len(a) >= 3
        /\ a[2] = titleUrgent
        /\ Len(a) > 3 => /\ Len(a) = 7
                         /\ a[5] # << >>
                         /\ a[7] \in {argBugReport, argTwoLabels, argUnclosed}}

ParallelCalls == {c \in ParallelArgv \X ParallelArgv : c[1] # c[2]}

\* a run that takes no arguments record
NoArgs == [none |-> TRUE]

\* no request sent, nothing printed, no promise pending
Idle == [pc |-> "idle", requests |-> << >>, console |-> << >>, output |-> << >>,
         adfDescription |-> Undefined, response |-> Undefined, exitCode |-> 0]

----------------------------------------------------------------------------
(* The state machine: one exported function, called up to MaxCalls times   *)
(* on the same arguments and the same configuration store.                 *)

InitMapLabels ==
    /\ op = "mapGitHubLabelsToJiraIssueType"
    /\ configStore \in ConfigStores
    /\ githubLabels \in LabelArguments
    /\ githubIssue = NoIssue
    /\ text = AbsentTxt

InitMapPriority ==
    /\ op = "mapPriority"
    /\ configStore = MissingFile
    /\ githubLabels = NullLabels
    /\ githubIssue \in PriorityIssues \cup FeatureRequestIssues
    /\ text = AbsentTxt

InitMapFields ==
    /\ op = "mapGitHubIssueToJiraFields"
    /\ \/ configStore = Loaded(SummaryConfig) /\ githubIssue \in ComponentIssues
       \/ configStore \in FieldConfigStores /\ githubIssue \in FieldIssues
    /\ githubLabels = NullLabels
    /\ text = AbsentTxt

InitTextToADF ==
    /\ op = "textToADF"
    /\ configStore = MissingFile
    /\ githubLabels = NullLabels
    /\ githubIssue = NoIssue
    /\ text \in AdfInputs

\* one of the builders of adf-utils.js, or createGitHubIssueADF
InitBuilder ==
    /\ configStore = MissingFile
    /\ githubLabels = NullLabels
    /\ githubIssue = NoIssue
    /\ text = AbsentTxt
    /\ \/ op = "createFormattedADF" /\ args \in [textNodes : FormattedArguments]
       \/ op = "createBulletListADF" /\ args \in [items : ListArguments]
       \/ op = "createOrderedListADF" /\ args \in [items : ListArguments]
       \/ op = "createHeadingWithContentADF" /\ args \in HeadingArguments
       \/ op = "createCodeBlockADF" /\ args \in CodeArguments
       \/ op = "createLinkADF" /\ args \in LinkArguments
       \/ op = "combineADFContent" /\ args \in [contentBlocks : CombineArguments]
       \/ op = "createGitHubIssueADF" /\ args \in GitHubArguments
       \/ op = "isValidADF" /\ args \in [adf : Descriptions]

InitCreateIssue ==
    /\ op = "createIssue"
    /\ configStore = MissingFile
    /\ githubLabels = NullLabels
    /\ githubIssue = NoIssue
    /\ text = AbsentTxt
    /\ args \in CreateIssueArguments

\* node map-issue-type.js <github-labels-json> [config-path]
InitClassify ==
    /\ op = "map-issue-type.js"
    /\ configStore \in ConfigStores
    /\ githubLabels = NullLabels
    /\ githubIssue = NoIssue
    /\ text = AbsentTxt
    /\ args \in [argv : ClassifyArgv, env : OutputEnvs]

\* node create.js <issueType> <summary> <description> [githubUrl] [author]
\* [createdAt] [githubLabelsJson]
InitCreate ==
    /\ op = "create.js"
    /\ configStore \in {MissingFile, Loaded(SummaryConfig), Loaded(ReadmeConfig)}
    /\ githubLabels = NullLabels
    /\ githubIssue = NoIssue
    /\ text = AbsentTxt
    /\ args \in [argv : CreateArgv, env : CreateEnvs]

\* two invocations of the asynchronous block of create.js in one process
InitParallel ==
    /\ op = "parallel"
    /\ configStore = Loaded(SummaryConfig)
    /\ githubLabels = NullLabels
    /\ githubIssue = NoIssue
    /\ text = AbsentTxt
    /\ args \in [calls : ParallelCalls, env : {JiraEnv}]

Init ==
    /\ results = << >>
    /\ proc = Idle
    /\ twin = Idle
    /\ \/ /\ args = NoArgs
          /\ \/ InitMapLabels
             \/ InitMapPriority
             \/ InitMapFields
             \/ InitTextToADF
       \/ InitBuilder
       \/ InitCreateIssue
       \/ InitClassify
       \/ InitCreate
       \/ InitParallel

Record(outcome) ==
    /\ Len(results) < MaxCalls
    /\ results' = Append(results, outcome)
    /\ UNCHANGED <<op, configStore, githubLabels, githubIssue, text, args, proc, twin>>

CallMapLabels ==
    /\ op = "mapGitHubLabelsToJiraIssueType"
    /\ Record(mapGitHubLabelsToJiraIssueType(githubLabels, configStore))

CallMapPriority ==
    /\ op = "mapPriority"
    /\ Record(mapPriority(githubIssue))

CallMapFields ==
    /\ op = "mapGitHubIssueToJiraFields"
    /\ Record(mapGitHubIssueToJiraFields(githubIssue, configStore))

CallTextToADF ==
    /\ op = "textToADF"
    /\ Record(textToADF(text))

CallCreateFormattedADF ==
    /\ op = "createFormattedADF"
    /\ Record(createFormattedADF(args.textNodes))

CallCreateBulletListADF ==
    /\ op = "createBulletListADF"
    /\ Record(createBulletListADF(args.items))

CallCreateOrderedListADF ==
    /\ op = "createOrderedListADF"
    /\ Record(createOrderedListADF(args.items))

CallCreateHeadingWithContentADF ==
    /\ op = "createHeadingWithContentADF"
    /\ Record(createHeadingWithContentADF(args.headingText, args.level, args.content))

CallCreateCodeBlockADF ==
    /\ op = "createCodeBlockADF"
    /\ Record(createCodeBlockADF(args.code, args.language))

CallCreateLinkADF ==
    /\ op = "createLinkADF"
    /\ Record(createLinkADF(args.linkText, args.url))

CallCombineADFContent ==
    /\ op = "combineADFContent"
    /\ Record(combineADFContent(args.contentBlocks))

CallCreateGitHubIssueADF ==
    /\ op = "createGitHubIssueADF"
    /\ Record(createGitHubIssueADF(args.githubUrl, args.author, args.createdAt,
                                   args.body, args.mappingInfo))

\* the run of the same program, on the same inputs and with the same server
\* answers, whose two credentials are other values (an unset one stays unset)
OtherCredentials(env) ==
    [env EXCEPT !.JIRA_USER_EMAIL = IF Truthy(@) THEN Str("other@example.com") ELSE @,
                !.JIRA_API_TOKEN = IF Truthy(@) THEN Str("other-token") ELSE @]

\* the inputs of a run, which no step changes
inputs == <<op, configStore, githubLabels, githubIssue, text, args>>

CallIsValidADF ==
    /\ op = "isValidADF"
    /\ Record(Return(isValidADFValue(args.adf), "chain", << >>))

\* createIssue up to its await: the payload is assembled, printed and
\* posted; an exception before the request goes to the catch block
CreateIssueStart(process, env, a) ==
    IF StringifyFails(a.description)
    THEN [process EXCEPT !.console = @ \o CatchLog(CircularError),
                         !.adfDescription = Undefined,
                         !.response = Undefined]
    ELSE Post(process, env, a.projectKey, a.issueType, a.summary, a.description,
              a.additionalFields)

\* the request succeeded: response.data.key is returned
Resolved(process, key) ==
    [process EXCEPT !.pc = "idle", !.response = [data |-> [key |-> key]]]

\* the request failed: the catch block prints and throws the error again
Failed(process, error) ==
    [process EXCEPT !.pc = "idle", !.response = error, !.console = @ \o CatchLog(error)]

CreateIssueCall ==
    /\ op = "createIssue"
    /\ proc.pc = "idle"
    /\ Len(results) < MaxCalls
    /\ results' = IF StringifyFails(args.description)
                  THEN Append(results, Rejected(CircularError))
                  ELSE results
    /\ proc' = CreateIssueStart(proc, args.env, args)
    /\ twin' = CreateIssueStart(twin, OtherCredentials(args.env), args)
    /\ UNCHANGED inputs

CreateIssueResolves ==
    /\ op = "createIssue"
    /\ proc.pc = "awaiting"
    /\ \E key \in ResponseKeys :
        /\ results' = Append(results, Fulfilled(key))
        /\ proc' = Resolved(proc, key)
        /\ twin' = Resolved(twin, key)
    /\ UNCHANGED inputs

CreateIssueRejects ==
    /\ op = "createIssue"
    /\ proc.pc = "awaiting"
    /\ \E error \in ResponseErrors :
        /\ results' = Append(results, Rejected(error))
        /\ proc' = Failed(proc, error)
        /\ twin' = Failed(twin, error)
    /\ UNCHANGED inputs

\* the whole run of map-issue-type.js
Classify ==
    /\ op = "map-issue-type.js"
    /\ proc.pc = "idle"
    /\ IF Len(args.argv) < 1
       THEN proc' = UsageExit(proc) /\ results' = results
       ELSE IF JSONparse(args.argv[1]) = SyntaxError
       THEN proc' = ClassifyCatch(proc) /\ results' = results
       ELSE LET outcome == mapGitHubLabelsToJiraIssueType(JSONparse(args.argv[1]),
                                                           configStore)
            IN  /\ proc' = ClassifyOutput(proc, args.env, outcome)
                /\ results' = Append(results, outcome)
    /\ UNCHANGED <<inputs, twin>>

\* the body of the asynchronous block of create.js up to the await inside
\* createIssue: the labels are classified, the description is rendered, the
\* payload is posted
Pipeline(process, argv, env, store) ==
    LET mapped == LabelsBlock(argv, store)
    IN  Post([process EXCEPT !.console = @ \o mapped.lines],
             env, env.JIRA_PROJECT_KEY, Arg(argv, 1), Arg(argv, 2),
             finalDescription(argv, mapped.mappingInfo), mapped.additionalFields)

\* create.js from its start to the await inside createIssue
CreateStart(process, argv, env, store) ==
    IF Len(argv) < 3 THEN UsageExit(process)
    ELSE IF EnvMissing(env) THEN EnvExit(process)
    ELSE Pipeline(process, argv, env, store)

Create ==
    /\ op = "create.js"
    /\ proc.pc = "idle"
    /\ proc' = CreateStart(proc, args.argv, args.env, configStore)
    /\ twin' = CreateStart(twin, args.argv, OtherCredentials(args.env), configStore)
    /\ UNCHANGED <<inputs, results>>

\* the request succeeded: createIssue returns the key, the run reports it
CreateResolves ==
    /\ op = "create.js"
    /\ proc.pc = "awaiting"
    /\ \E key \in ResponseKeys :
        /\ results' = Append(results, Fulfilled(key))
        /\ proc' = SuccessOutput(proc, args.env, key)
        /\ twin' = SuccessOutput(twin, OtherCredentials(args.env), key)
    /\ UNCHANGED inputs

\* the request failed: createIssue throws, the outer catch block exits
CreateRejects ==
    /\ op = "create.js"
    /\ proc.pc = "awaiting"
    /\ \E error \in ResponseErrors :
        /\ results' = Append(results, Rejected(error))
        /\ proc' = FailureExit(proc, error)
        /\ twin' = FailureExit(twin, error)
    /\ UNCHANGED inputs

\* variant: the locals of the asynchronous block are module-level, one
\* copy for every invocation
Task_Shared(i) == proc

\* the parameters and locals of an invocation are its own: proc holds
\* those of the first invocation, twin those of the second
Task(i) == IF i = 1 THEN proc ELSE twin

SetTask(i, process) ==
    IF i = 1 THEN proc' = process /\ twin' = twin
             ELSE twin' = process /\ proc' = proc

\* one of the two invocations runs up to its await
ParallelStart ==
    /\ op = "parallel"
    /\ \E i \in 1..2 :
        /\ Task(i).pc = "idle"
        /\ SetTask(i, Pipeline(Task(i), args.calls[i], args.env, configStore))
    /\ UNCHANGED <<inputs, results>>

\* the request of one of the two is answered with a key
ParallelResolves ==
    /\ op = "parallel"
    /\ \E i \in 1..2, key \in ResponseKeys :
        /\ Task(i).pc = "awaiting"
        /\ SetTask(i, [Resolved(Task(i), key) EXCEPT !.pc = "done"])
        /\ results' = Append(results, Fulfilled(key))
    /\ UNCHANGED inputs

\* the request of one of the two fails
ParallelRejects ==
    /\ op = "parallel"
    /\ \E i \in 1..2, error \in ResponseErrors :
        /\ Task(i).pc = "awaiting"
        /\ SetTask(i, [Failed(Task(i), error) EXCEPT !.pc = "done"])
        /\ results' = Append(results, Rejected(error))
    /\ UNCHANGED inputs

Next ==
    \/ CallMapLabels
    \/ CallMapPriority
    \/ CallMapFields
    \/ CallTextToADF
    \/ CallCreateFormattedADF
    \/ CallCreateBulletListADF
    \/ CallCreateOrderedListADF
    \/ CallCreateHeadingWithContentADF
    \/ CallCreateCodeBlockADF
    \/ CallCreateLinkADF
    \/ CallCombineADFContent
    \/ CallCreateGitHubIssueADF
    \/ CallIsValidADF
    \/ CreateIssueCall
    \/ CreateIssueResolves
    \/ CreateIssueRejects
    \/ Classify
    \/ Create
    \/ CreateResolves
    \/ CreateRejects
    \/ ParallelStart
    \/ ParallelResolves
    \/ ParallelRejects

Spec == Init /\ [][Next]_vars

----------------------------------------------------------------------------
(* Properties of mapGitHubLabelsToJiraIssueType. *)

Calls == 1..Len(results)

MapLabelsRun == op = "mapGitHubLabelsToJiraIssueType"

\* the configuration was read and parsed into an object with a mappings object
ConfigLoaded ==
    /\ configStore.state = "ok"
    /\ configStore.parsed.json = "object"
    /\ configStore.parsed.hasMappings

\* the positions of the labels that are keys of config.mappings
KeyPositions ==
    {i \in 1..Len(githubLabels.items) :
        githubLabels.items[i].t = "string"
        /\ githubLabels.items[i].v \in DOMAIN configStore.parsed.mappings}

EarliestKey == githubLabels.items[CHOOSE i \in KeyPositions : \A j \in KeyPositions : i <= j].v

\* C1: first match wins: with a loaded config, when L is the earliest label
\* of the list that is a key of config.mappings, the call returns mappings[L]
\* whatever the other labels are and whatever L is mapped to, and throws
\* nothing.
C1_FirstMatchWins ==
    (MapLabelsRun /\ ConfigLoaded /\ githubLabels.t = "array" /\ KeyPositions # {})
        => \A c \in Calls :
            /\ results[c].kind = "return"
            /\ results[c].val = configStore.parsed.mappings[EarliestKey]

\* C2: with a loaded config, when no label of the list is a key of
\* config.mappings (the empty list included), the call returns
\* config.defaultIssueType.
C2_UnmatchedGivesDefault ==
    (MapLabelsRun /\ ConfigLoaded /\ githubLabels.t = "array" /\ KeyPositions = {})
        => \A c \in Calls :
            /\ results[c].kind = "return"
            /\ results[c].val = configStore.parsed.defaultIssueType

\* C3: when the configuration cannot be read or parsed the call throws
\* nothing and returns "Task" for every label list; and the unmatched-label
\* path returns "Task" only when defaultIssueType is "Task".
C3_LoadFailureFallsBackToTask ==
    MapLabelsRun
        => \A c \in Calls :
            /\ configStore.state \in {"missing", "unparsable"}
                => /\ results[c].kind = "return"
                   /\ results[c].val = Str("Task")
                   /\ results[c].path = "fallback"
            /\ (results[c].path = "default" /\ results[c].val = Str("Task"))
                => configStore.parsed.defaultIssueType = Str("Task")

\* an unparsable file, a non-empty label list, and the call has returned "Task"
C3_Witness ==
    /\ MapLabelsRun
    /\ configStore.state = "unparsable"
    /\ githubLabels.t = "array" /\ githubLabels.items # << >>
    /\ Len(results) > 0
    /\ results[1] = Return(Str("Task"), "fallback", FallbackLog)

----------------------------------------------------------------------------
(* Properties of mapPriority. *)

MapPriorityRun == op = "mapPriority"

\* the title and the body as mapPriority reads them, case folded
FoldedTitle == toLowerCase(OrEmpty(githubIssue.title).s)
FoldedBody == toLowerCase(OrEmpty(githubIssue.body).s)

Rule1 ==
    includes(FoldedBody, kwHighProductionSystem) \/ includes(FoldedBody, kwProductionDown)
Rule2 == includes(FoldedBody, kwMediumNonCritical)
Rule3 == includes(FoldedBody, kwLowMinorIssue) \/ includes(FoldedBody, kwCosmetic)

Returned(c, name) == results[c].kind = "return" /\ results[c].val = Str(name)

\* C4: the body rules are tried in a fixed order, first match wins, case
\* ignored: rule 1 gives Highest whatever else title and body hold; else
\* rule 2 gives Medium even with "cosmetic" in the body or "urgent" /
\* "critical" in the title; else rule 3 gives Low even with "urgent" /
\* "critical" in the title.
C4_BodyRulesInOrder ==
    MapPriorityRun
        => \A c \in Calls :
            /\ Rule1 => Returned(c, "Highest")
            /\ (~Rule1 /\ Rule2) => Returned(c, "Medium")
            /\ (~Rule1 /\ ~Rule2 /\ Rule3) => Returned(c, "Low")

\* rule 2 has won over "cosmetic" in the body and "urgent" in the title
C4_Witness ==
    /\ MapPriorityRun
    /\ ~Rule1 /\ Rule2
    /\ includes(FoldedBody, kwCosmetic)
    /\ includes(FoldedTitle, kwUrgent)
    /\ Len(results) > 0
    /\ Returned(1, "Medium")

KeywordPresent ==
    \/ includes(FoldedTitle, kwUrgent) \/ includes(FoldedTitle, kwCritical)
    \/ includes(FoldedBody, kwUrgent) \/ includes(FoldedBody, kwCritical)

\* C5: when none of the phrases of rules 1-3 occurs, the result is High if
\* the title or the body contains "urgent" or "critical", case ignored, and
\* Medium otherwise.
C5_KeywordsGiveHigh ==
    (MapPriorityRun /\ ~Rule1 /\ ~Rule2 /\ ~Rule3)
        => \A c \in Calls :
            IF KeywordPresent THEN Returned(c, "High") ELSE Returned(c, "Medium")

\* the urgency phrases of the feature request template found in the body
FeaturePhrases ==
    {phrase \in {lineCriticalBusiness, lineMediumImprove, lineLowNiceToHave} :
        includes(OrEmpty(githubIssue.body).s, phrase)}

\* C20: for an issue whose title holds no priority keyword, a body with
\* "High - Critical for business operations" maps to High, one with
\* "Medium - Would significantly improve workflows" to Medium and one with
\* "Low - Nice to have enhancement" to Low (bodies with one of the three
\* phrases and none of the bug report phrases).
C20_FeatureRequestPhrases ==
    (MapPriorityRun /\ ~Rule1 /\ ~Rule2 /\ ~Rule3
        /\ ~includes(FoldedTitle, kwUrgent) /\ ~includes(FoldedTitle, kwCritical)
        /\ ~includes(FoldedBody, kwUrgent))
        => \A c \in Calls :
            /\ FeaturePhrases = {lineCriticalBusiness} => Returned(c, "High")
            /\ FeaturePhrases = {lineMediumImprove} => Returned(c, "Medium")
            /\ FeaturePhrases = {lineLowNiceToHave} => Returned(c, "Low")

----------------------------------------------------------------------------
(* Properties of mapGitHubIssueToJiraFields. *)

MapFieldsRun == op = "mapGitHubIssueToJiraFields"

\* the lines of s, ended by any of the characters of seps
RECURSIVE LinesBy(_, _)
LinesBy(s, seps) ==
    LET cuts == {i \in 1..Len(s) : s[i] \in seps}
    IN IF cuts = {} THEN <<s>>
       ELSE LET k == CHOOSE i \in cuts : \A j \in cuts : j <= i
            IN Append(LinesBy(SubSeq(s, 1, k - 1), seps), SubSeq(s, k + 1, Len(s)))

IssueBody == OrEmpty(githubIssue.body).s

\* some line of the body is the tag, surrounding white space and case aside
OnOwnLine(tag) ==
    \E i \in 1..Len(LinesBy(IssueBody, LineTerminators)) :
        toLowerCase(trim(LinesBy(IssueBody, LineTerminators)[i])) = toLowerCase(tag)

\* C6: the components returned are exactly the tags REELS, ALPHA, TRINITY,
\* AI HUB, in that order and once each, that stand alone on some line of the
\* body, surrounding white space and case aside; a tag inside a longer line
\* does not count, and no such line gives the empty list.
C6_ComponentsAreOwnLineTags ==
    MapFieldsRun
        => \A c \in Calls :
            results[c].kind = "return"
                => results[c].val.components = SelectSeq(platformAreas, OnOwnLine)

\* a body with "REELS" inside a sentence and "AI HUB" on its own line
C6_Witness ==
    /\ MapFieldsRun
    /\ IssueBody = JoinLines(<<lineReelsInline, lineAiHub>>)
    /\ Len(results) > 0
    /\ results[1].kind = "return"
    /\ results[1].val.components = <<areaAIHUB>>

\* every entry of githubIssue.labels is a string or an object carrying a name
LabelsWellFormed ==
    githubIssue.labels.t = "array"
        => \A i \in 1..Len(githubIssue.labels.items) :
            githubIssue.labels.items[i].t \in {"string", "object"}

\* the names of githubIssue.labels in input order; none when labels is absent
InputLabelNames ==
    IF githubIssue.labels.t # "array" THEN << >>
    ELSE [i \in 1..Len(githubIssue.labels.items) |->
            Str(githubIssue.labels.items[i].v)]

\* C7: the fields are the composition of the three mappers: issueType is
\* mapGitHubLabelsToJiraIssueType of the label names, priority is
\* mapPriority of the issue, components are the extracted tags, labels are
\* the label names in input order (each input label a string or an object
\* carrying a name); a second call on the same issue and configuration gives
\* the same result.
C7_FieldsComposeTheMappers ==
    (MapFieldsRun /\ LabelsWellFormed)
        => \A c \in Calls :
            /\ results[c].kind = "return"
            /\ results[c].val.issueType =
                   mapGitHubLabelsToJiraIssueType(Array(InputLabelNames), configStore).val
            /\ results[c].val.priority = mapPriority(githubIssue).val
            /\ results[c].val.components = extractComponents(IssueBody)
            /\ results[c].val.labels = InputLabelNames
            /\ results[c] = results[1]

\* two calls on an issue whose labels mix a string and a name-carrying object
\* that is a key of the mappings
C7_Witness ==
    /\ MapFieldsRun
    /\ configStore = Loaded(SummaryConfig)
    /\ githubIssue.labels = Array(<<Str("Improvement"), LabelObj("Bug Report")>>)
    /\ githubIssue.body.t = "string" /\ githubIssue.body.s # << >>
    /\ Len(results) = MaxCalls
    /\ results[MaxCalls].val.issueType = Str("Improvement")
    /\ results[MaxCalls].val.components = <<areaREELS>>

Priorities == {Str("Highest"), Str("High"), Str("Medium"), Str("Low")}

\* C8: classification never fails: for every issue (labels absent, empty, or
\* holding strings, name-carrying objects or null) and every state of the
\* configuration store, the call throws nothing and returns a non-empty
\* string issueType, a priority among Highest, High, Medium, Low and a list
\* of components.
C8_ClassificationNeverFails ==
    MapFieldsRun
        => \A c \in Calls :
            /\ results[c].kind = "return"
            /\ results[c].val.issueType.t = "string"
            /\ results[c].val.issueType.v # ""
            /\ results[c].val.priority \in Priorities
            /\ results[c].val.components \in Seq({platformAreas[i] : i \in 1..Len(platformAreas)})

----------------------------------------------------------------------------
(* Properties of textToADF. *)

TextToADFRun == op = "textToADF"

\* a line with a character that is not white space
HasInk(line) == \E i \in 1..Len(line) : line[i] \notin WhiteSpace

\* the lines of the text that hold some non-white-space character, in order
InkLines == SelectSeq(LinesBy(text.s, {"\n"}), HasInk)

\* C9: for a text with at least one line holding a non-white-space
\* character, the content is exactly one paragraph per such line, in line
\* order, each with exactly one text node holding the trimmed line; blank
\* and white-space-only lines give no block.
C9_OneParagraphPerLine ==
    (TextToADFRun /\ text.t = "string" /\ Len(InkLines) > 0)
        => \A c \in Calls :
            /\ results[c].kind = "return"
            /\ results[c].val =
                   [type |-> "doc", version |-> 1,
                    content |-> [i \in 1..Len(InkLines) |->
                        [type |-> "paragraph",
                         content |-> <<[type |-> "text", text |-> trim(InkLines[i])]>>]]]

\* a padded line below a white-space-only line, converted to one paragraph
C9_Witness ==
    /\ TextToADFRun
    /\ text = Txt(JoinLines(<<txtBlanks, txtPadded>>))
    /\ Len(results) > 0
    /\ Len(results[1].val.content) = 1
    /\ results[1].val.content[1].content[1].text = <<"L", "i", "n", "e", " ", "2">>

EmptyInput == text.t # "string" \/ text.s = << >>

\* C10: textToADF throws for no input; for the empty string, an absent value
\* or a non-string value it returns the document of type doc, version 1 with
\* empty content, and again so on every further call.
C10_EmptyInputGivesEmptyDoc ==
    TextToADFRun
        => \A c \in Calls :
            /\ results[c].kind = "return"
            /\ EmptyInput
                => results[c].val = [type |-> "doc", version |-> 1, content |-> << >>]

\* the number 5 converted twice, both times to the empty document
C10_Witness ==
    /\ TextToADFRun
    /\ text = NumberTxt(<<"5">>)
    /\ Len(results) = MaxCalls
    /\ \A c \in Calls : results[c].val.content = << >>

----------------------------------------------------------------------------
(* Properties of the document builders. *)

BuilderOps ==
    {"textToADF", "createFormattedADF", "createBulletListADF", "createOrderedListADF",
     "createHeadingWithContentADF", "createCodeBlockADF", "createLinkADF",
     "combineADFContent", "createGitHubIssueADF"}

BuilderRun == op \in BuilderOps

\* C11: whatever a builder returns (textToADF, createFormattedADF,
\* createBulletListADF, createOrderedListADF, createHeadingWithContentADF,
\* createCodeBlockADF, createLinkADF, combineADFContent,
\* createGitHubIssueADF), on any input on which it returns, passes
\* isValidADF: its type is "doc", its version is 1, its content is an array.
C11_BuildersGiveValidADF ==
    BuilderRun =>
        \A c \in Calls :
            results[c].kind = "return" => isValidADF(DocValue(results[c].val))

\* createGitHubIssueADF returned a document with mapping paragraphs and a body
C11_Witness ==
    /\ op = "createGitHubIssueADF"
    /\ \E c \in Calls :
        /\ results[c].kind = "return"
        /\ Len(results[c].val.content) > 6
        /\ isValidADF(DocValue(results[c].val))

----------------------------------------------------------------------------
(* Properties of createIssue. *)

CreateIssueRun == op = "createIssue"

\* createIssue has been invoked at least once
Invoked == proc.pc = "awaiting" \/ Len(results) > 0

\* the calls of createIssue so far, the pending one included
Invocations == Len(results) + (IF proc.pc = "awaiting" THEN 1 ELSE 0)

\* a document object as the specification describes it
IsDocument(value) ==
    /\ value.t = "object"
    /\ value.type = Str("doc")
    /\ value.version = Number("1")
    /\ value.content.t = "array"

EmptyDocument == DocValue([type |-> "doc", version |-> 1, content |-> << >>])

C13_FixedKeysKeepTheirValues ==
    CreateIssueRun =>
        \A r \in 1..Len(proc.requests) :
            LET fields == proc.requests[r].data.fields
            IN  /\ fields["project"] = [key |-> args.projectKey]
                /\ fields["summary"] = args.summary
                /\ fields["description"] = proc.adfDescription
                /\ fields["issuetype"] = [name |-> args.issueType]

\* C14: createIssue sends at most one request per invocation; a failed
\* request, by a network failure or a rejection with or without an error
\* list, is thrown on unchanged and followed by no further request; a
\* successful one makes createIssue return the key of the response.
C14_OneRequestErrorUnchanged ==
    CreateIssueRun =>
        /\ Len(proc.requests) <= Invocations
        /\ proc.pc = "idle" /\ proc.response # Undefined =>
            LET last == results[Len(results)]
            IN  IF proc.response \in ResponseErrors
                THEN last.kind = "throw" /\ last.val = proc.response
                ELSE last.kind = "return" /\ last.val = proc.response.data.key

\* two invocations, each with its one request: one failed, one succeeded
C14_Witness ==
    /\ CreateIssueRun
    /\ proc.pc = "idle"
    /\ Len(results) = 2
    /\ Len(proc.requests) = 2
    /\ results[1].kind = "throw"
    /\ results[1].val = RejectedWithErrors
    /\ results[2] = Fulfilled(Str("PROJ-1"))

----------------------------------------------------------------------------
(* Properties of the map-issue-type.js command line. *)

ClassifyRun == op = "map-issue-type.js"

Exited == proc.pc = "exited"

\* the labels arguments that are JSON texts, and those that are JSON arrays
ValidJsonTexts ==
    {argBugReport, argUnknown, argTwoLabels, argConstructor, argEmptyArray, argNull,
     argObject}
JsonArrayTexts == {argBugReport, argUnknown, argTwoLabels, argConstructor, argEmptyArray}

\* the console holds a line that starts with these words
Printed(what) == \E i \in 1..Len(proc.console) : proc.console[i].what = what

C16_ClassifyPrintsIssueType ==
    ClassifyRun /\ Exited /\ Len(args.argv) > 0 /\ args.argv[1] \in JsonArrayTexts =>
        /\ Len(results) = 1
        /\ \E i \in 1..Len(proc.console) :
            includes(TemplateName(proc.console[i].val), TemplateName(results[1].val))

----------------------------------------------------------------------------
(* Properties of the create.js command line. *)

CreateRun == op = "create.js"

\* the arguments and the environment passed the two checks
Accepted == Len(args.argv) >= 3 /\ ~EnvMissing(args.env)

\* the console holds this line
PrintedLine(what, val) ==
    \E i \in 1..Len(proc.console) :
        proc.console[i].what = what /\ proc.console[i].val = val

\* the run printed a key and its browse URL
EmittedKey(key) ==
    /\ PrintedLine("Successfully created Jira issue:", key)
    /\ PrintedLine("Issue URL:",
                   [base |-> args.env.JIRA_BASE_URL, path |-> "/browse/", key |-> key])

Emphasized(block) ==
    /\ block.type = "paragraph"
    /\ \E j \in 1..Len(block.content) :
        /\ "marks" \in DOMAIN block.content[j]
        /\ block.content[j].marks = <<[type |-> "em"]>>

\* a labels argument that is given and is no JSON text
BadLabelsJson ==
    /\ Len(args.argv) >= 7
    /\ args.argv[7] # << >>
    /\ args.argv[7] \notin ValidJsonTexts

----------------------------------------------------------------------------
(* Properties of createGitHubIssueADF. *)

GitHubRun == op = "createGitHubIssueADF"

StartsWith(s, prefix) ==
    Len(s) >= Len(prefix) /\ SubSeq(s, 1, Len(prefix)) = prefix

\* a paragraph of one emphasized text node that starts with these words
EmBlock(block, prefix) ==
    /\ block.type = "paragraph"
    /\ Len(block.content) = 1
    /\ block.content[1].type = "text"
    /\ StartsWith(block.content[1].text, prefix)
    /\ "marks" \in DOMAIN block.content[1]
    /\ block.content[1].marks = <<[type |-> "em"]>>

\* a label list with an entry, an issue type or priority that names something
HasLabels == args.mappingInfo.labels.t = "array" /\ Len(args.mappingInfo.labels.items) > 0
Present(val) == val.t = "string" /\ val.v # ""

Count(condition) == IF condition THEN 1 ELSE 0

\* the lines of the body that hold a character that is no white space
BodyInkLines ==
    IF args.body.t = "string" THEN SelectSeq(LinesBy(args.body.s, {"\n"}), HasInk)
    ELSE << >>

\* C19: createGitHubIssueADF returns these blocks in this order and no
\* other: (1) a paragraph of the text "Original GitHub Issue: " and a text
\* node that holds the url and a link mark whose href is the url; (2)
\* "Created by: <author>"; (3) "Created at: <createdAt>"; (4) a rule; (5) an
\* emphasized "GitHub Labels: ..." paragraph iff the labels are not empty;
\* (6) an emphasized "Mapped to Issue Type: ..." paragraph iff an issue
\* type is present; (7) an emphasized "Priority: ..." paragraph iff a
\* priority is present; (8) iff the body holds a character that is no
\* white space, a second rule and one paragraph per such line of the body.
C19_GitHubBlockOrder ==
    GitHubRun =>
        \A c \in Calls :
            results[c].kind = "return" =>
                LET blocks == results[c].val.content
                    url == args.githubUrl.s
                    n5 == Count(HasLabels)
                    n6 == Count(Present(args.mappingInfo.issueType))
                    n7 == Count(Present(args.mappingInfo.priority))
                    n == 4 + n5 + n6 + n7
                IN  /\ Len(blocks) = n + (IF Len(BodyInkLines) > 0
                                          THEN 1 + Len(BodyInkLines) ELSE 0)
                    /\ blocks[1] =
                         [type |-> "paragraph",
                          content |-> <<[type |-> "text", text |-> txtOriginalIssue],
                                        [type |-> "text", text |-> url,
                                         marks |-> <<[type |-> "link",
                                                      attrs |-> [href |-> url]]>>]>>]
                    /\ args.author.t = "string" =>
                         blocks[2] = [type |-> "paragraph",
                                      content |-> <<[type |-> "text",
                                                     text |-> txtCreatedBy \o args.author.s]>>]
                    /\ StartsWith(blocks[2].content[1].text, txtCreatedBy)
                    /\ blocks[3] = [type |-> "paragraph",
                                    content |-> <<[type |-> "text",
                                                   text |-> txtCreatedAt \o args.createdAt.s]>>]
                    /\ blocks[4] = [type |-> "rule"]
                    /\ n5 = 1 => EmBlock(blocks[5], txtGitHubLabels)
                    /\ n6 = 1 => EmBlock(blocks[4 + n5 + 1], txtMappedTo)
                    /\ n7 = 1 => EmBlock(blocks[4 + n5 + n6 + 1], txtPriority)
                    /\ Len(BodyInkLines) > 0 =>
                        /\ blocks[n + 1] = [type |-> "rule"]
                        /\ \A i \in 1..Len(BodyInkLines) :
                            blocks[n + 1 + i] =
                                [type |-> "paragraph",
                                 content |-> <<[type |-> "text",
                                                text |-> trim(BodyInkLines[i])]>>]

\* a document with all three mapping paragraphs and a body of two lines
C19_Witness ==
    /\ GitHubRun
    /\ HasLabels
    /\ Present(args.mappingInfo.issueType)
    /\ Present(args.mappingInfo.priority)
    /\ Len(BodyInkLines) = 2
    /\ \E c \in Calls : results[c].kind = "return" /\ Len(results[c].val.content) = 10

----------------------------------------------------------------------------
(* Properties of the console: credentials. *)

\* the credentials a run was started with
Credentials(env) == {c \in {env.JIRA_USER_EMAIL, env.JIRA_API_TOKEN} : Truthy(c)}

\* a value of data.fields holds the credential
FieldHolds(fields, k, c) ==
    \/ fields[k] = c
    \/ k = "project" /\ fields[k].key = c
    \/ k \in {"issuetype", "priority"} /\ fields[k].name = c
    \/ k = "components" /\ \E i \in DOMAIN fields[k] : fields[k][i].name = c

\* a printed line holds the credential
LineHolds(line, c) ==
    \/ line.val = c
    \/ "config" \in DOMAIN line.val
    \/ "auth" \in DOMAIN line.val
    \/ line.what = "Issue URL:" /\ c \in {line.val.base, line.val.key}
    \/ line.what = "data" /\ \E k \in DOMAIN line.val.fields : FieldHolds(line.val.fields, k, c)

\* C21: on every path of createIssue and of create.js no printed line holds
\* the Jira API token or the basic-auth user, and the run under other
\* credentials (everything else the same) prints the same lines
C21_CredentialsStayOutOfTheLog ==
    (CreateIssueRun \/ CreateRun) =>
        /\ \A i \in DOMAIN proc.console : \A c \in Credentials(args.env) :
              ~LineHolds(proc.console[i], c)
        /\ proc.console = twin.console

\* a run of create.js that posted with its credentials, was rejected with
\* an error list and printed it; the twin posted with the other credentials
C21_Witness ==
    /\ CreateRun
    /\ Cardinality(Credentials(args.env)) = 2
    /\ proc.pc = "exited"
    /\ proc.response = RejectedWithErrors
    /\ Len(proc.requests) = 1
    /\ proc.requests[1].config.auth = auth(args.env)
    /\ twin.requests[1].config.auth # auth(args.env)
    /\ Len(proc.console) > 2

----------------------------------------------------------------------------
(* Properties of two invocations in flight at once. *)

ParallelRun == op = "parallel"

\* the invocation run alone, from a fresh process, up to its await
Alone(i) == Pipeline(Idle, args.calls[i], args.env, configStore)

\* what createIssue gave back to an invocation whose request was answered
ResultOf(process) ==
    IF "data" \in DOMAIN process.response
    THEN Fulfilled(process.response.data.key)
    ELSE Rejected(process.response)

\* the invocation built, printed and sent what it builds, prints and sends
\* alone; once answered, its result is the one of its own answer
SameAsAlone(i, process) ==
    /\ process.pc # "idle" =>
          /\ process.requests = Alone(i).requests
          /\ process.adfDescription = Alone(i).adfDescription
          /\ SubSeq(process.console, 1, Len(Alone(i).console)) = Alone(i).console
    /\ process.pc = "done" =>
          \E j \in DOMAIN results : results[j] = ResultOf(process)
    /\ process.pc = "idle" => process = Idle

----------------------------------------------------------------------------
(* Properties of textToADF: the fallback paragraph. *)

\* a non-empty string none of whose lines holds a non-white-space character
BlankText == text.t = "string" /\ text.s # << >> /\ Len(InkLines) = 0

\* C23: for a non-empty text of which no line survives the blank-line filter
\* the document has exactly one paragraph with one text node holding the
\* input as it is, untrimmed; for every other input no paragraph holds a
\* text without a non-white-space character, so the fallback is taken in
\* exactly this case
C23_FallbackKeepsRawText ==
    TextToADFRun =>
        \A c \in Calls :
            /\ results[c].kind = "return"
            /\ IF BlankText
               THEN results[c].val.content =
                        <<[type |-> "paragraph",
                           content |-> <<[type |-> "text", text |-> text.s]>>]>>
               ELSE \A i \in DOMAIN results[c].val.content :
                        /\ Len(results[c].val.content[i].content) = 1
                        /\ HasInk(results[c].val.content[i].content[1].text)

\* a text of two white-space-only lines went through textToADF
C23_Witness ==
    /\ TextToADFRun
    /\ BlankText
    /\ Len(LinesBy(text.s, {"\n"})) = 2
    /\ Len(results) > 0
    /\ Len(results[1].val.content) = 1
    /\ results[1].val.content[1].content[1].text = text.s

----------------------------------------------------------------------------
(* Properties of mapPriority: what rule 2 is there for. *)

\* the chain of mapPriority with its "medium - a non-critical feature"
\* branch taken out
PriorityWithoutRule2(title, body) ==
    IF includes(body, kwHighProductionSystem) \/ includes(body, kwProductionDown)
    THEN "Highest"
    ELSE IF includes(body, kwLowMinorIssue) \/ includes(body, kwCosmetic)
    THEN "Low"
    ELSE IF \/ includes(title, kwUrgent)
            \/ includes(title, kwCritical)
            \/ includes(body, kwUrgent)
    THEN "High"
    ELSE "Medium"

\* the keyword test that follows the body rules, as the code has it
KeywordRule ==
    \/ includes(FoldedTitle, kwUrgent)
    \/ includes(FoldedTitle, kwCritical)
    \/ includes(FoldedBody, kwUrgent)

\* rule 2 is the first rule to match, and a later rule would match too
Rule2Shadows == ~Rule1 /\ Rule2 /\ (Rule3 \/ KeywordRule)

\* C24, as stated: for every title and body mapPriority returns what the
\* variant without the rule 2 branch returns
C24_Rule2Redundant ==
    MapPriorityRun
        => \A c \in Calls :
            Returned(c, PriorityWithoutRule2(FoldedTitle, FoldedBody))

\* C24, amended: mapPriority and the variant without the rule 2 branch agree
\* on every title and body except where rule 2 matches first and rule 3 or
\* the keyword rule matches too; there mapPriority returns Medium and the
\* variant returns Low or High
C24_Rule2RedundantUnlessShadowing ==
    MapPriorityRun
        => \A c \in Calls :
            IF Rule2Shadows
            THEN /\ Returned(c, "Medium")
                 /\ PriorityWithoutRule2(FoldedTitle, FoldedBody) =
                        (IF Rule3 THEN "Low" ELSE "High")
            ELSE Returned(c, PriorityWithoutRule2(FoldedTitle, FoldedBody))

\* the rule 2 phrase and "cosmetic" in one body: Medium, where the variant
\* gives Low
C24_Witness ==
    /\ MapPriorityRun
    /\ Rule2Shadows
    /\ Rule3
    /\ Len(results) > 0
    /\ Returned(1, "Medium")
    /\ PriorityWithoutRule2(FoldedTitle, FoldedBody) = "Low"

----------------------------------------------------------------------------
(* Properties of isValidADF. *)

IsValidADFRun == op = "isValidADF"

\* C25: isValidADF returns a boolean for every input: true exactly for an
\* object whose type is "doc", whose version is 1 and whose content is an
\* array; false for every other input, null, an absent argument, another
\* version and a content that is no array included
C25_IsValidADFReturnsBoolean ==
    IsValidADFRun
        => \A c \in Calls :
            /\ results[c].kind = "return"
            /\ results[c].val = Boolean(IsDocument(args.adf))

----------------------------------------------------------------------------
(* Properties of createHeadingWithContentADF. *)

HeadingRun == op = "createHeadingWithContentADF"

\* the level asked for; 1 when the argument is left out
AskedLevel == IF args.level.t = "undefined" THEN 1 ELSE args.level.n

\* the level brought into 1..6
Clamped(n) == IF n < 1 THEN 1 ELSE IF n > 6 THEN 6 ELSE n

\* C26: for every integer level the heading carries max(1, min(6, level)),
\* a level of 1..6; the document is the heading followed by exactly one
\* paragraph holding the content when the content is non-empty, and the
\* heading alone when the content is empty or absent
C26_HeadingLevelClamped ==
    HeadingRun =>
        \A c \in Calls :
            LET blocks == results[c].val.content
            IN  /\ results[c].kind = "return"
                /\ Len(blocks) >= 1
                /\ blocks[1].type = "heading"
                /\ blocks[1].attrs.level = Clamped(AskedLevel)
                /\ blocks[1].attrs.level \in 1..6
                /\ IF args.content.t = "string" /\ args.content.s # << >>
                   THEN /\ Len(blocks) = 2
                        /\ blocks[2] = [type |-> "paragraph",
                                        content |-> <<[type |-> "text",
                                                       text |-> args.content.s]>>]
                   ELSE Len(blocks) = 1

\* a level under 1 was raised to 1 and the white-space-only content kept
C26_Witness ==
    /\ HeadingRun
    /\ args.level.t = "number"
    /\ args.level.n < 1
    /\ args.content = Txt(txtBlanks)
    /\ Len(results) > 0
    /\ results[1].val.content[1].attrs.level = 1
    /\ Len(results[1].val.content) = 2

----------------------------------------------------------------------------
(* Properties of createGitHubIssueADF: the body section. *)

\* where the rules of a block sequence are
RulesIn(blocks) == {i \in DOMAIN blocks : blocks[i].type = "rule"}

\* C27: the body section filters the lines as textToADF does: for every
\* body holding a character that is no white space, the blocks after the
\* second rule are exactly the content of textToADF(body); for an empty,
\* absent or white-space-only body the document has exactly one rule and
\* no body paragraph (after the rule come the emphasized mapping
\* paragraphs only)
C27_BodySectionIsTextToADF ==
    GitHubRun =>
        \A c \in Calls :
            results[c].kind = "return" =>
                LET blocks == results[c].val.content
                    rules == RulesIn(blocks)
                    last == CHOOSE i \in rules : \A j \in rules : j <= i
                IN  IF Len(BodyInkLines) > 0
                    THEN /\ Cardinality(rules) = 2
                         /\ SubSeq(blocks, last + 1, Len(blocks)) =
                                textToADF(args.body).val.content
                    ELSE /\ Cardinality(rules) = 1
                         /\ last = 4
                         /\ \A i \in (last + 1)..Len(blocks) :
                                "marks" \in DOMAIN blocks[i].content[1]

\* a body of a padded line and a white-space-only line: one paragraph
\* after the second rule, holding the trimmed line
C27_Witness ==
    /\ GitHubRun
    /\ args.body = Txt(JoinLines(<<txtPadded, txtBlanks>>))
    /\ \E c \in Calls :
        /\ results[c].kind = "return"
        /\ Cardinality(RulesIn(results[c].val.content)) = 2
        /\ results[c].val.content[Len(results[c].val.content)] = Paragraph(trim(txtPadded))

----------------------------------------------------------------------------
(* Properties of create.js: the issue type. *)

\* the blocks of the description a request carries
DescriptionBlocks(request) == request.data.fields["description"].content.items

\* C28: in create.js, whenever the labels argument was given and classified,
\* the issue type the description announces ("Mapped to Issue Type: X") is
\* the issue type the payload submits in its issuetype field
C28_AnnouncedTypeIsSubmittedType ==
    CreateRun =>
        \A r \in DOMAIN proc.requests :
            LET fields == proc.requests[r].data.fields
                blocks == DescriptionBlocks(proc.requests[r])
            IN  fields["description"].content.t = "array" =>
                    \A i \in DOMAIN blocks :
                        EmBlock(blocks[i], txtMappedTo) =>
                            blocks[i].content[1].text =
                                txtMappedTo \o fields["issuetype"].name.s

----------------------------------------------------------------------------
(* Properties of create.js: the checks before the request. *)

\* the four values create.js needs from its environment are all set
AllFourSet ==
    \A k \in {"JIRA_USER_EMAIL", "JIRA_API_TOKEN", "JIRA_BASE_URL", "JIRA_PROJECT_KEY"} :
        args.env[k].t = "string" /\ args.env[k].v # ""

\* C29: create.js sends no request and exits non-zero whenever fewer than
\* three arguments are given or one of the four environment values is
\* missing; a request is sent only after both checks have passed
C29_NoRequestBeforeTheChecks ==
    CreateRun =>
        /\ (Len(args.argv) < 3 \/ ~AllFourSet) =>
              /\ proc.requests = << >>
              /\ proc.pc \in {"idle", "exited"}
              /\ proc.pc = "exited" => proc.exitCode = 1 /\ Len(proc.console) > 0
        /\ proc.requests # << >> => Len(args.argv) >= 3 /\ AllFourSet

\* enough arguments, the project key unset: the run has ended with exit
\* code 1 and without a request
C29_Witness ==
    /\ CreateRun
    /\ Len(args.argv) >= 3
    /\ ~Truthy(args.env.JIRA_PROJECT_KEY)
    /\ proc.pc = "exited"
    /\ proc.exitCode = 1
    /\ proc.requests = << >>

----------------------------------------------------------------------------
(* Properties of create.js: the workflow outputs. *)

\* GITHUB_OUTPUT names a file
OutputSet == args.env.GITHUB_OUTPUT.t = "string" /\ args.env.GITHUB_OUTPUT.v # ""

\* the two lines appended for a key, in the order they are appended
OutputLines(key) ==
    <<[stream |-> "file", what |-> "jira-key=", val |-> key],
      [stream |-> "file", what |-> "jira-url=",
       val |-> [base |-> args.env.JIRA_BASE_URL, path |-> "/browse/", key |-> key]]>>

====================================================================
